---- MODULE Spec2Model ----
(***************************************************************************)
(* A model of envoy-logger's InfluxDB sampling engine                      *)
(* (src/envoy_logger/influxdb_sampling_engine.py) and of the base class it *)
(* extends (src/envoy_logger/sampling_engine.py).                          *)
(*                                                                         *)
(* The engine runs two loops, each on a thread of its own: the power loop  *)
(* and the inverter loop.  Every blocking call of a loop (the aligner's    *)
(* wait, a device poll, a store query, a store write) is one action; the   *)
(* local computation that follows a call belongs to the same action.  The  *)
(* day check of a rollover and the assignment of the day marker, which lie *)
(* between the return of one call and the next call, are an action of      *)
(* their own: a loop stands at "rollover" before the check and at          *)
(* "integral" while its integral query is pending, the marker assigned.    *)
(* The clock and the local date move on wherever the loops stand; a step   *)
(* reads them as they are when it is taken, and what it read is kept where *)
(* the code keeps it (last_inverter_poll, the day markers, the rollover's  *)
(* ts).                                                                    *)
(*                                                                         *)
(* Conventions.  An Optional[...] of the source is a set with at most one  *)
(* element ({} is None).  Timestamps are whole numbers; only their order   *)
(* and the store query's look-back window matter.  A dict keyed by serial  *)
(* is a function whose domain is a set of serials.  A list of points is a  *)
(* sequence.                                                               *)
(***************************************************************************)
EXTENDS Integers, Sequences, FiniteSets, TLC

\* ------------------------------------------------------------------ bounds

\* Reading timestamps range over 1..MaxTs.
MaxTs == 2
\* The wall clock runs over 1..MaxNow.
MaxNow == 3
\* Local dates run over 0..MaxDay.
MaxDay == 1
\* A channel group of a power snapshot has 0..MaxLines lines.
MaxLines == 1
\* Where a power snapshot alone is the input, a channel group has
\* 0..MaxSnapshotLines lines.
MaxSnapshotLines == 3

\* collect_samples_with_retry is called with retries in 0..MaxRetries.
MaxRetries == 2
\* inverter_interval_seconds ranges over 1..MaxInterval clock units.
MaxInterval == 2

\* wait_for_next_cycle is modelled with interval_seconds in
\* 1..MaxAlignInterval and at its default.
MaxAlignInterval == 2
\* The aligned loop is followed up to MaxSeconds seconds after the epoch
\* second it starts from.
MaxSeconds == 61
\* The loop starts 0..MaxSub grid steps after a whole second, or 1..MaxSub
\* grid steps before the next one.
MaxSub == 2
\* A sleep ends 0..MaxLate grid steps, or 1..MaxLate whole seconds, late.
MaxLate == 2
\* The work between two waits takes 0..MaxWork grid steps, or 1..MaxWork
\* whole seconds.
MaxWork == 2

\* The look-back of the watermark query, range(start: -30d), in the model's
\* time unit (one unit is 30 days).
LookbackUnits == 1

Serials == {"A", "B"}
Ts == 1 .. MaxTs
\* Daily energy values, in tenths of a Wh (125 is 12.5 Wh).
WhValues == {0, 125}
MeasurementTypes == <<"consumption", "production", "net">>

\* An inverter high-rate point: measurement inverter-production-<serial>,
\* time ts (second precision), tags source/measurement-type/serial.
InverterPoints == [serial : Serials, ts : Ts]

\* What the device client may return: a reading per serial of any subset.
DeviceMaps == UNION {[S -> Ts] : S \in SUBSET Serials}

\* What config.inverters.keys() may be when a rollover reads it.
Configured == {{}, Serials}

\* How a call to a collaborator inside a loop's try block may end: it
\* returns, it raises one of the exceptions the loop catches (ssl.SSLError,
\* requests SSLError / ConnectionError / Timeout, OSError), or it raises
\* any other exception.
Outcomes == {"ok", "caught", "uncaught"}

VARIABLES
    aligner,                \* which wait_for_next_cycle the engine object has
    started,                \* the loops that were started on a thread
    faults,                 \* whether calls to the store may raise in this run
    now,                    \* datetime.now()
    today,                  \* date.today()
    constructed_on,         \* date.today() when the engine was constructed
    influxdb_bucket_lr,     \* config.influxdb_bucket_lr, the daily bucket's name
    hrStore,                \* store: the points tagged measurement-type inverter that
                            \* the bucket named config.influxdb_bucket_hr holds
    last_sample_timestamp,  \* SamplingEngine.last_sample_timestamp
    pcInv,                  \* the inverter loop's position
    cutoff_ts,              \* _inverter_loop: cutoff_ts
    raw_inverter_data,      \* _inverter_loop: raw_inverter_data
    inv_points,             \* the inverter loop's latest list of points
    last_inverter_poll,     \* SamplingEngine.last_inverter_poll
    inverter_todays_date,   \* InfluxdbSamplingEngine.inverter_todays_date
    invLog,                 \* the store calls of the inverter loop's current cycle
    pcPow,                  \* the power loop's position
    power_data,             \* _power_loop: power_data
    pow_points,             \* the power loop's latest list of points
    power_todays_date,      \* InfluxdbSamplingEngine.power_todays_date
    powLog,                 \* the store calls of the power loop's current cycle
    inverter_interval_seconds, \* SamplingEngine.inverter_interval_seconds
    pcCol,                  \* the position of a collect_samples_with_retry call
    retries,                \* collect_samples_with_retry: retries
    attempt,                \* collect_samples_with_retry: attempt
    col_power_data,         \* collect_samples_with_retry: power_data
    colLog,                 \* the device calls of the current collect call
    colResult,              \* how the latest collect call ended
    interval_seconds,       \* SamplingEngine.interval_seconds
    clock,                  \* the wall clock wait_for_next_cycle reads, in ticks
    pcAlign,                \* the position of the loop that calls wait_for_next_cycle
    time_to_next,           \* wait_for_next_cycle: time_to_next of the latest call
    invoked,                \* the clock when wait_for_next_cycle was last invoked
    alignLog,               \* how late the latest sleep ended, when the cycle after it
                            \* started, how long its work took
    pcRun,                  \* the main thread's position in run()
    cancelled               \* whether the process was sent an interrupt signal

vars == <<aligner, started, faults, now, today, constructed_on, influxdb_bucket_lr, hrStore,
          last_sample_timestamp,
          pcInv, cutoff_ts, raw_inverter_data, inv_points, last_inverter_poll,
          inverter_todays_date, invLog,
          pcPow, power_data, pow_points, power_todays_date, powLog,
          inverter_interval_seconds, pcCol, retries, attempt, col_power_data, colLog,
          colResult, interval_seconds, clock, pcAlign, time_to_next, invoked,
          alignLog, pcRun, cancelled>>

envVars == <<aligner, started, faults, now, today, constructed_on, influxdb_bucket_lr>>
invVars == <<pcInv, cutoff_ts, raw_inverter_data, inv_points, last_inverter_poll,
             inverter_todays_date, invLog>>
powVars == <<pcPow, power_data, pow_points, power_todays_date, powLog>>
\* The state of SamplingEngine's own collect_samples_with_retry and
\* wait_for_next_cycle, which the InfluxDB engine's loops never run.
colVars == <<inverter_interval_seconds, pcCol, retries, attempt, col_power_data, colLog,
             colResult>>
alignVars == <<interval_seconds, clock, pcAlign, time_to_next, invoked, alignLog>>
\* The state of run() on the main thread.
runVars == <<pcRun, cancelled>>
baseVars == <<colVars, alignVars, runVars>>

\* ----------------------------------------------------------------- helpers

Max(S) == CHOOSE x \in S : \A y \in S : y <= x
\* A dict, a set and a query result are held without an order (a function,
\* a set), and the order in which the code iterates over them is given
\* apart, as a sequence of the keys: for a dict the order it was built in,
\* for a query result the order of its tables, for a set the order its
\* hashes give.  KeyOrders is every such sequence.
RECURSIVE KeyOrders(_)
KeyOrders(S) ==
    IF S = {} THEN {<<>>}
    ELSE UNION {{<<x>> \o rest : rest \in KeyOrders(S \ {x})} : x \in S}

Range(seq) == {seq[i] : i \in 1 .. Len(seq)}

\* The elements of a sequence that are in a set, in the sequence's order.
RECURSIVE Kept(_, _)
Kept(seq, S) ==
    IF seq = <<>> THEN <<>>
    ELSE (IF seq[1] \in S THEN <<seq[1]>> ELSE <<>>) \o Kept(Tail(seq), S)

\* A query result handed over as a function (group key -> value) and the
\* order of its tables, read as the sequence of its records.
Records(f, order) ==
    [i \in 1 .. Len(order) |-> [key |-> order[i], value |-> f[order[i]]]]

\* The log of one cycle's store calls.
\*   cutoffQ  the watermark query: "none", "ok", "failed"
\*   queryAt  when the watermark query ran
\*   hr, lr   the write to the high-rate / daily bucket: "none", "ok", "failed"
\*   again    the points of the high-rate write the store held already
\*   rollQ    the integral queries issued
\*   rollDate the local date the rollover check read and stored (new_date,
\*            lines 155, 158, 166, 169)
\*   rollAt   the time the inverter rollover read before its query (ts, line
\*            170), until the daily points are built with it
\*   integral what the integral query returned
\*   expected config.inverters.keys() as the rollover read it
\*   outcome  "running", "completed", "skipped" (an exception was caught),
\*            "died" (an exception left the loop)
\*   polls    the power polls made (power loop)
\*   timeouts the power polls that timed out (power loop)
\*   touched  the engine's loop state (day markers, last_inverter_poll) the
\*            cycle has read or written
\*   sent     the write calls issued: the bucket and the kinds of points
EmptyLog == [cutoffQ |-> "none", queryAt |-> {}, hr |-> "none", again |-> {},
             rollQ |-> 0, rollDate |-> {}, rollAt |-> {}, integral |-> {}, expected |-> {},
             lr |-> "none", outcome |-> "running",
             polls |-> 0, timeouts |-> 0, touched |-> {}, sent |-> {}]

\* The loop state a step of a loop reads or writes.  The inverter loop's
\* poll assigns last_inverter_poll (line 86); _inverter_day_rollover reads
\* and assigns inverter_todays_date (lines 166-169), _power_day_rollover
\* power_todays_date (lines 155-158).
inverter_poll_touches == {"last_inverter_poll"}

inverter_rollover_touches == {"inverter_todays_date"}

\* Variant of power_poll_touches: the power poll consults the cadence gate.
power_poll_touches_gate == {"last_inverter_poll"}

\* Lines 58-60: get_power_data and _power_high_rate_points touch none of it.
power_poll_touches == {}

power_rollover_touches == {"power_todays_date"}

\* A daily-total point has the field Wh, a high-rate point has not.
PointKind(point) == IF "Wh" \in DOMAIN point THEN "daily" ELSE "high-rate"

\* A write call as the log keeps it.
WriteCall(bucket, points) ==
    [bucket |-> bucket, kinds |-> {PointKind(points[i]) : i \in 1 .. Len(points)}]

\* Variant of step_after_cycle_write: the cycle ends with its write.
step_after_cycle_write_ends_cycle == "wait"

\* What follows the `if points:` write of a cycle, made or not: the day
\* rollover (lines 61-65, 89-93).
step_after_cycle_write == "rollover"

\* The bucket of a cycle's write of its points (lines 62-64, 90-92).
bucket_of_cycle_write == "influxdb_bucket_hr"

\* Variant of bucket_of_rollover_write: the daily points go to bucket_hr.
bucket_of_rollover_write_hr == "influxdb_bucket_hr"

\* The bucket of a rollover's write (lines 160-163, 172-175).
bucket_of_rollover_write == "influxdb_bucket_lr"

\* ------------------------------------------------------------------ store

\* How a call to the store may end in this run.
StoreOutcomes == IF faults THEN Outcomes ELSE {"ok"}

\* range(start: -30d): a point is seen by a query run at `at` when its time
\* lies in [at - 30d, at].
InRange(ts, at) == at - LookbackUnits <= ts /\ ts <= at

\* Variant of FluxLatest that yields the oldest time in range, not the
\* newest.
FluxLatest_oldest(store, at) ==
    LET seen == {p \in store : InRange(p.ts, at)}
    IN IF seen = {} THEN {}
       ELSE {CHOOSE x \in {p.ts : p \in seen} : \A p \in seen : x <= p.ts}

\* The Flux query of _query_last_inverter_timestamp run against the store:
\* the inverter points of bucket_hr in range, grouped, max(_time).  The
\* result has one record, or none when no point is in range.
FluxLatest(store, at) ==
    LET seen == {p \in store : InRange(p.ts, at)}
    IN IF seen = {} THEN {} ELSE {Max({p.ts : p \in seen})}

\* write(bucket_hr, points) of inverter points: a point whose series and
\* time the store holds already replaces the one held.
StoreWrite(store, points) == store \cup Range(points)

\* ----------------------------------------------------------- engine code

\* envoy_logger.model.filter_new_inverter_data(data, cutoff): keep reading r
\* iff the cutoff is absent or r.timestamp > cutoff.  The module is not part
\* of src/; its behaviour is pinned by the specification (strict
\* greater-than) and by test_influxdb_sampling_engine.py lines 657-713 and
\* 715 ff. (a reading older than the cutoff is not written, a reading newer
\* is, every reading is with no cutoff).
filter_new_inverter_data(data, cutoff) ==
    LET keep == {s \in DOMAIN data : cutoff = {} \/ \A c \in cutoff : data[s] > c}
    IN [s \in keep |-> data[s]]

\* SamplingEngine.get_inverter_data (lines 121-123): the device's mapping,
\* passed through the same filter with the in-memory last_sample_timestamp
\* as the cutoff.  collect_samples_with_retry assigns that field at line 71,
\* before it polls the inverters at line 103, so the cutoff of a call is the
\* time its own power poll returned and a reading stamped before the call
\* is removed.  test_sampling_engine.py (lines 18-34, 48-100) expects such a
\* reading back: it holds of an engine whose field is still unset at the
\* first inverter poll (its line 93 makes the reading "newer than
\* last_sample_timestamp" for the second poll), not of line 71.
get_inverter_data(device, last_sample) == filter_new_inverter_data(device, last_sample)

\* Variant of query_last_inverter_timestamp that hands the result's time on
\* even when the query raised.
query_last_inverter_timestamp_ignoring_raise(result, raised) == result

\* _query_last_inverter_timestamp: the time of the first record of the
\* query's result, None when there is none or when the query raised.
query_last_inverter_timestamp(result, raised) ==
    IF raised THEN {} ELSE result

\* Variant of inverter_data that also keeps a reading stamped exactly at the
\* cutoff.
inverter_data_inclusive(raw, cutoff) ==
    LET keep == {s \in DOMAIN raw : \A c \in cutoff : raw[s] >= c}
    IN [s \in keep |-> raw[s]]

\* _inverter_loop, line 85: the readings kept for this cycle.
inverter_data(raw, cutoff) == filter_new_inverter_data(raw, cutoff)

\* _point_from_inverter / _inverter_high_rate_points: one point per reading,
\* in the order of inverter_data.values(), the dict's order.
point_from_inverter(serial, ts) == [serial |-> serial, ts |-> ts]

inverter_high_rate_points(data, order) ==
    [i \in 1 .. Len(order) |-> point_from_inverter(order[i], data[order[i]])]

\* Variant of has_points that lets an empty list through to the write.
has_points_always(points) == TRUE

\* `if points:` before a write (lines 61, 89, 160, 172).
has_points(points) == points # <<>>

\* Variant of date_at_construction: the stored date starts a day back.
date_at_construction_day_before(new_date) == new_date - 1

\* __init__, lines 38-39: both stored dates start as date.today().
date_at_construction(new_date) == new_date

\* Variants of rollover_due: a rollover at every check, and at none.
rollover_due_always(stored_date, new_date) == TRUE

rollover_due_never(stored_date, new_date) == FALSE

\* _power_day_rollover / _inverter_day_rollover: the rollover runs unless
\* the stored date is today's (lines 155-157, 166-168).
rollover_due(stored_date, new_date) == stored_date # new_date

\* Variant of date_at_rollover_query that leaves the stored date as it was.
date_at_rollover_query_kept(stored_date, new_date) == stored_date

\* _power_day_rollover / _inverter_day_rollover: the stored date a due
\* rollover has when it issues its integral query: the date is assigned
\* (lines 158, 169) before the query is issued (lines 159, 170-171).
date_at_rollover_query(stored_date, new_date) == new_date

\* Variant of compute_inverter_daily_Wh_points without the 0.0 Wh points.
compute_inverter_daily_Wh_points_unfilled(result, order, configured, iteration, ts) ==
    LET recs == Records(result, order)
    IN [i \in 1 .. Len(recs) |-> [serial |-> recs[i].key, Wh |-> recs[i].value, ts |-> ts]]

\* _compute_inverter_daily_Wh_points: a point per record of the integral
\* query's result, in the result's order, then a 0.0 Wh point per configured
\* serial not among them, in the order the set unreported_inverters is
\* iterated in (iteration: the order of the configured serials in it).
\* Every point has the time ts, read at line 170 (lines 227, 237).
compute_inverter_daily_Wh_points(result, order, configured, iteration, ts) ==
    LET recs == Records(result, order)
        unreported_inverters == configured \ {recs[i].key : i \in 1 .. Len(recs)}
        rest == Kept(iteration, unreported_inverters)
    IN [i \in 1 .. Len(recs) |-> [serial |-> recs[i].key, Wh |-> recs[i].value, ts |-> ts]]
       \o [i \in 1 .. Len(rest) |-> [serial |-> rest[i], Wh |-> 0, ts |-> ts]]

\* What the inverter integral query may return: a value per serial of any
\* subset (one group per device serial).
InverterIntegrals == UNION {[S -> WhValues] : S \in SUBSET Serials}

\* When both loops are followed at once, under run(), the inputs of a cycle
\* are kept to fewer cases: readings stamped 1, and an empty integral result.
UnderRun == pcRun # "off"

\* What get_inverter_data returns in a cycle (line 84).
DeviceReturns ==
    IF UnderRun THEN {d \in DeviceMaps : \A serial \in DOMAIN d : d[serial] = 1}
    ELSE DeviceMaps

\* What the inverter rollover's integral query returns (lines 205-217).
InverterIntegralResults ==
    IF UnderRun THEN {r \in InverterIntegrals : DOMAIN r = {}} ELSE InverterIntegrals

\* ------------------------------------------------------- the inverter loop

\* Variant of InvRaise: a caught exception is logged and the cycle goes on
\* to its rollover.
InvRaise_goes_on(outcome, log) ==
    /\ pcInv' = IF outcome = "caught" THEN "rollover" ELSE "dead"
    /\ invLog' = [log EXCEPT !.queryAt = {}, !.again = {}, !.integral = {}, !.expected = {},
                             !.rollAt = {},
                             !.outcome = IF outcome = "caught" THEN "skipped" ELSE "died"]
    /\ cutoff_ts' = {}
    /\ raw_inverter_data' = <<>>
    /\ inv_points' = <<>>

\* An exception ends the cycle: a caught one skips to the next wait (lines
\* 94-105), any other leaves the loop and ends its thread.  The cycle's
\* locals are not read again and are reset.
InvRaise(outcome, log) ==
    /\ pcInv' = IF outcome = "caught" THEN "wait" ELSE "dead"
    /\ invLog' = [log EXCEPT !.queryAt = {}, !.again = {}, !.integral = {}, !.expected = {},
                             !.rollAt = {},
                             !.outcome = IF outcome = "caught" THEN "skipped" ELSE "died"]
    /\ cutoff_ts' = {}
    /\ raw_inverter_data' = <<>>
    /\ inv_points' = <<>>

\* line 81: self.wait_for_next_cycle(self.inverter_interval_seconds).  The
\* method SamplingEngine defines takes no interval: called with one it
\* raises TypeError, outside the try block, and the thread ends.  An engine
\* whose wait_for_next_cycle was replaced by a callable taking the interval
\* (as the loop tests do) goes on to the cycle.
InvWait ==
    /\ pcInv = "wait"
    /\ IF aligner = "base"
       THEN /\ pcInv' = "dead"
            /\ UNCHANGED <<cutoff_ts, raw_inverter_data, inv_points, invLog>>
       ELSE /\ pcInv' = "query"
            /\ cutoff_ts' = {}
            /\ raw_inverter_data' = <<>>
            /\ inv_points' = <<>>
            /\ invLog' = EmptyLog
    /\ UNCHANGED <<envVars, hrStore, last_sample_timestamp, last_inverter_poll,
                   inverter_todays_date, powVars>>
    /\ UNCHANGED baseVars

\* line 83: cutoff_ts = self._query_last_inverter_timestamp()
InvQuery ==
    /\ pcInv = "query"
    /\ \E raised \in {r \in BOOLEAN : r => faults} :
          /\ cutoff_ts' = query_last_inverter_timestamp(FluxLatest(hrStore, now), raised)
          /\ invLog' = [invLog EXCEPT !.cutoffQ = IF raised THEN "failed" ELSE "ok",
                                      !.queryAt = {now}]
    /\ pcInv' = "poll"
    /\ UNCHANGED <<envVars, hrStore, last_sample_timestamp, raw_inverter_data, inv_points,
                   last_inverter_poll, inverter_todays_date, powVars>>
    /\ UNCHANGED baseVars

\* Variant of poll_time_after_filter: the poll time is stored only when the
\* filter left points to write.
poll_time_after_filter_if_points(points, last_poll, at) ==
    IF points # <<>> THEN {at} ELSE last_poll

\* line 86: self.last_inverter_poll = datetime.now(), after the filter of
\* line 85, whatever it left.
poll_time_after_filter(points, last_poll, at) == {at}

\* lines 84-89: the device poll, the filter, last_inverter_poll, the points.
InvPoll ==
    /\ pcInv = "poll"
    /\ \E outcome \in Outcomes :
          IF outcome = "ok"
          THEN \E device \in DeviceReturns :
                  /\ raw_inverter_data' = get_inverter_data(device, last_sample_timestamp)
                  /\ \E order \in KeyOrders(DOMAIN inverter_data(raw_inverter_data',
                                                                 cutoff_ts)) :
                        inv_points' = inverter_high_rate_points(
                                          inverter_data(raw_inverter_data', cutoff_ts),
                                          order)
                  /\ last_inverter_poll' =
                         poll_time_after_filter(inv_points', last_inverter_poll, now)
                  /\ pcInv' = IF has_points(inv_points') THEN "write_hr"
                              ELSE step_after_cycle_write
                  /\ invLog' = [invLog EXCEPT !.touched = @ \cup inverter_poll_touches]
                  /\ UNCHANGED cutoff_ts
          ELSE /\ InvRaise(outcome, invLog)
               /\ UNCHANGED last_inverter_poll
    /\ UNCHANGED <<envVars, hrStore, last_sample_timestamp, inverter_todays_date, powVars>>
    /\ UNCHANGED baseVars

\* lines 90-92: write(bucket=bucket_hr, record=points)
InvWriteHr ==
    /\ pcInv = "write_hr"
    /\ \E outcome \in StoreOutcomes :
          LET call == WriteCall(bucket_of_cycle_write, inv_points) IN
          IF outcome = "ok"
          THEN /\ hrStore' = StoreWrite(hrStore, inv_points)
               /\ invLog' = [invLog EXCEPT !.hr = "ok",
                                           !.again = Range(inv_points) \cap hrStore,
                                           !.sent = @ \cup {call}]
               /\ pcInv' = step_after_cycle_write
               /\ UNCHANGED <<cutoff_ts, raw_inverter_data, inv_points>>
          ELSE /\ InvRaise(outcome, [invLog EXCEPT !.hr = "failed", !.sent = @ \cup {call}])
               /\ UNCHANGED hrStore
    /\ UNCHANGED <<envVars, last_sample_timestamp, last_inverter_poll, inverter_todays_date,
                   powVars>>
    /\ UNCHANGED baseVars

\* line 93, _inverter_day_rollover up to the call of its integral query
\* (lines 165-171, 205-217): nothing on the stored date; otherwise the date
\* is stored, the time is read and the integral query is issued.  The
\* locals of the high-rate part of the cycle are not read again and are
\* reset.
InvRollover ==
    /\ pcInv = "rollover"
    /\ LET log == [invLog EXCEPT !.queryAt = {}, !.again = {},
                                 !.touched = @ \cup inverter_rollover_touches]
       IN IF ~rollover_due(inverter_todays_date, today)
          THEN /\ pcInv' = "wait"
               /\ invLog' = [log EXCEPT !.outcome = "completed"]
               /\ UNCHANGED inverter_todays_date
          ELSE /\ pcInv' = "integral"
               /\ inverter_todays_date' = date_at_rollover_query(inverter_todays_date, today)
               /\ invLog' = [log EXCEPT !.rollQ = @ + 1, !.rollDate = {today},
                                        !.rollAt = {now}]
    /\ cutoff_ts' = {}
    /\ raw_inverter_data' = <<>>
    /\ inv_points' = <<>>
    /\ UNCHANGED <<envVars, hrStore, last_sample_timestamp, last_inverter_poll, powVars>>
    /\ UNCHANGED baseVars

\* _compute_inverter_daily_Wh_points from the return of its integral query
\* (lines 217-243), and line 172, if points: the query raises, or it returns
\* and the daily points are computed, with the time read before the query.
InvIntegral ==
    /\ pcInv = "integral"
    /\ \E outcome \in StoreOutcomes :
          IF outcome = "ok"
          THEN \E result \in InverterIntegralResults, configured \in Configured :
                  /\ \E order \in KeyOrders(DOMAIN result),
                        iteration \in KeyOrders(configured), ts \in invLog.rollAt :
                        inv_points' = compute_inverter_daily_Wh_points(
                                          result, order, configured, iteration, ts)
                  /\ IF has_points(inv_points')
                     THEN /\ pcInv' = "write_lr"
                          /\ invLog' = [invLog EXCEPT !.integral = {result},
                                                      !.expected = configured,
                                                      !.rollAt = {}]
                     ELSE /\ pcInv' = "wait"
                          /\ invLog' = [invLog EXCEPT !.integral = {result},
                                                      !.expected = configured,
                                                      !.rollAt = {},
                                                      !.outcome = "completed"]
                  /\ UNCHANGED <<cutoff_ts, raw_inverter_data>>
          ELSE InvRaise(outcome, invLog)
    /\ UNCHANGED <<envVars, hrStore, last_sample_timestamp, last_inverter_poll,
                   inverter_todays_date, powVars>>
    /\ UNCHANGED baseVars

\* config.influxdb_bucket_hr, the high-rate bucket's name (the tests' name),
\* and the names the daily bucket may have: a name of its own, or the same.
influxdb_bucket_hr == "foobar_hr"

BucketNames == {"foobar_lr", influxdb_bucket_hr}

\* The inverter-tagged points of bucket_hr after the daily write of lines
\* 172-175: the daily points go to the bucket named influxdb_bucket_lr, which
\* is bucket_hr itself when the two names are equal.  A daily point carries
\* the time its rollover read (lines 170, 227, 237) and the tag
\* measurement-type inverter (lines 229, 239).
bucket_hr_after_daily_write(store, points) ==
    IF influxdb_bucket_lr = influxdb_bucket_hr THEN StoreWrite(store, points) ELSE store

\* lines 172-175: write(bucket=bucket_lr, record=points).  The rollover's
\* locals are not read again and are reset.
InvWriteLr ==
    /\ pcInv = "write_lr"
    /\ \E outcome \in StoreOutcomes :
          LET call == WriteCall(bucket_of_rollover_write, inv_points) IN
          IF outcome = "ok"
          THEN /\ pcInv' = "wait"
               /\ hrStore' = bucket_hr_after_daily_write(hrStore, inv_points)
               /\ invLog' = [invLog EXCEPT !.lr = "ok", !.integral = {}, !.expected = {},
                                           !.outcome = "completed", !.sent = @ \cup {call}]
               /\ inv_points' = <<>>
               /\ UNCHANGED <<cutoff_ts, raw_inverter_data>>
          ELSE /\ InvRaise(outcome, [invLog EXCEPT !.lr = "failed", !.sent = @ \cup {call}])
               /\ UNCHANGED hrStore
    /\ UNCHANGED <<envVars, last_sample_timestamp, last_inverter_poll,
                   inverter_todays_date, powVars>>
    /\ UNCHANGED baseVars

\* ---------------------------------------------------------- the power loop

\* The groups an integral query over the power series may return: one per
\* (measurement type, line index).
PowerGroups == [mtype : Range(MeasurementTypes), idx : 0 .. MaxLines - 1]

\* A result has a record per group of some of them, no more records than
\* there are measurement types.
PowerIntegrals ==
    UNION {[G -> WhValues] : G \in {H \in SUBSET PowerGroups :
                                        Cardinality(H) <= Len(MeasurementTypes)}}

\* A power snapshot: its timestamp and the number of lines of each channel
\* group (consumption, production, net).
PowerSnapshots(at) == [ts : {at}, lines : [DOMAIN MeasurementTypes -> 0 .. MaxLines]]

\* What get_power_data returns in a cycle (line 58); under run(), snapshots
\* whose channel groups have all no line or all MaxLines lines.
PowerReturns(at) ==
    IF UnderRun
    THEN {p \in PowerSnapshots(at) :
             \A g \in DOMAIN p.lines : p.lines[g] = p.lines[1] /\ p.lines[g] \in {0, MaxLines}}
    ELSE PowerSnapshots(at)

\* What the power rollover's integral query returns (lines 177-189); under
\* run(), no group, or the first line of every measurement type with one
\* value.
PowerIntegralResults ==
    IF UnderRun
    THEN {<<>>} \cup {[g \in {h \in PowerGroups : h.idx = 0} |-> v] : v \in WhValues}
    ELSE PowerIntegrals

\* _power_high_rate_points: a point per line of total_consumption, then of
\* total_production, then of net_consumption (_idb_point_from_line).
idb_point_from_line(mtype, idx, ts) == [mtype |-> mtype, idx |-> idx, ts |-> ts]

\* Variant of power_high_rate_points that starts with the net lines.
power_high_rate_points_net_first(sample_data) ==
    LET group(g) == [i \in 1 .. sample_data.lines[g] |->
                        idb_point_from_line(MeasurementTypes[g], i - 1, sample_data.ts)]
    IN group(3) \o group(1) \o group(2)

power_high_rate_points(sample_data) ==
    LET group(g) == [i \in 1 .. sample_data.lines[g] |->
                        idb_point_from_line(MeasurementTypes[g], i - 1, sample_data.ts)]
    IN group(1) \o group(2) \o group(3)

\* Variant of compute_power_daily_Wh_points that adds a point for the total.
compute_power_daily_Wh_points_with_total(result, order, ts) ==
    LET recs == Records(result, order)
    IN [i \in 1 .. Len(recs) |->
           [mtype |-> recs[i].key.mtype, idx |-> recs[i].key.idx,
            Wh |-> recs[i].value, ts |-> ts]]
       \o <<[mtype |-> "total", idx |-> 0, Wh |-> 0, ts |-> ts]>>

\* _compute_power_daily_Wh_points: a point per record of the integral query,
\* in the result's order.
compute_power_daily_Wh_points(result, order, ts) ==
    LET recs == Records(result, order)
    IN [i \in 1 .. Len(recs) |->
           [mtype |-> recs[i].key.mtype, idx |-> recs[i].key.idx,
            Wh |-> recs[i].value, ts |-> ts]]

\* Variant of PowRaise: a caught exception is logged and the cycle goes on
\* to its rollover.
PowRaise_goes_on(outcome, log) ==
    /\ pcPow' = IF outcome = "caught" THEN "rollover" ELSE "dead"
    /\ powLog' = [log EXCEPT !.integral = {},
                             !.outcome = IF outcome = "caught" THEN "skipped" ELSE "died"]
    /\ power_data' = {}
    /\ pow_points' = <<>>
\* An exception in the power loop (lines 66-77); see InvRaise.
PowRaise(outcome, log) ==
    /\ pcPow' = IF outcome = "caught" THEN "wait" ELSE "dead"
    /\ powLog' = [log EXCEPT !.integral = {},
                             !.outcome = IF outcome = "caught" THEN "skipped" ELSE "died"]
    /\ power_data' = {}
    /\ pow_points' = <<>>

\* line 56: self.wait_for_next_cycle(self.interval_seconds); see InvWait.
PowWait ==
    /\ pcPow = "wait"
    /\ IF aligner = "base"
       THEN /\ pcPow' = "dead"
            /\ UNCHANGED <<power_data, pow_points, powLog>>
       ELSE /\ pcPow' = "poll"
            /\ power_data' = {}
            /\ pow_points' = <<>>
            /\ powLog' = EmptyLog
    /\ UNCHANGED <<envVars, hrStore, last_sample_timestamp, invVars, power_todays_date>>
    /\ UNCHANGED baseVars

\* How the power loop's device poll may end: as Outcomes, with the caught
\* exceptions told apart: a timeout (requests' Timeout, which ReadTimeout
\* and ConnectTimeout are) or another caught one.
PowerPollOutcomes == Outcomes \cup {"timeout"}

\* lines 58-61: the device poll and the points.  The poll is the one call
\* self.get_power_data(); a timeout is caught by the loop like the other
\* exceptions of its except clause (lines 66-77).
PowPoll ==
    /\ pcPow = "poll"
    /\ \E outcome \in PowerPollOutcomes :
          LET log == [powLog EXCEPT !.polls = @ + 1,
                                    !.timeouts = IF outcome = "timeout" THEN @ + 1 ELSE @,
                                    !.touched = @ \cup power_poll_touches]
          IN IF outcome = "ok"
             THEN \E snapshot \in PowerReturns(now) :
                     /\ power_data' = {snapshot}
                     /\ pow_points' = power_high_rate_points(snapshot)
                     /\ pcPow' = IF has_points(pow_points') THEN "write_hr"
                                 ELSE step_after_cycle_write
                     /\ powLog' = log
             ELSE PowRaise(IF outcome = "timeout" THEN "caught" ELSE outcome, log)
    /\ UNCHANGED <<envVars, hrStore, last_sample_timestamp, invVars, power_todays_date>>
    /\ UNCHANGED baseVars

\* lines 62-64: write(bucket=bucket_hr, record=points)
PowWriteHr ==
    /\ pcPow = "write_hr"
    /\ \E outcome \in StoreOutcomes :
          LET call == WriteCall(bucket_of_cycle_write, pow_points) IN
          IF outcome = "ok"
          THEN /\ powLog' = [powLog EXCEPT !.hr = "ok", !.sent = @ \cup {call}]
               /\ pcPow' = step_after_cycle_write
               /\ UNCHANGED <<power_data, pow_points>>
          ELSE PowRaise(outcome, [powLog EXCEPT !.hr = "failed", !.sent = @ \cup {call}])
    /\ UNCHANGED <<envVars, hrStore, last_sample_timestamp, invVars, power_todays_date>>
    /\ UNCHANGED baseVars

\* line 65, _power_day_rollover(power_data.ts) up to the call of its
\* integral query (lines 154-159, 177-189): nothing on the stored date;
\* otherwise the date is stored and the integral query is issued.  The
\* snapshot's time is the argument ts; the snapshot is kept for it.
PowRollover ==
    /\ pcPow = "rollover"
    /\ LET log == [powLog EXCEPT !.touched = @ \cup power_rollover_touches] IN
       IF ~rollover_due(power_todays_date, today)
       THEN /\ pcPow' = "wait"
            /\ power_data' = {}
            /\ powLog' = [log EXCEPT !.outcome = "completed"]
            /\ UNCHANGED power_todays_date
       ELSE /\ pcPow' = "integral"
            /\ power_todays_date' = date_at_rollover_query(power_todays_date, today)
            /\ powLog' = [log EXCEPT !.rollQ = @ + 1, !.rollDate = {today}]
            /\ UNCHANGED power_data
    /\ pow_points' = <<>>
    /\ UNCHANGED <<envVars, hrStore, last_sample_timestamp, invVars>>
    /\ UNCHANGED baseVars

\* _compute_power_daily_Wh_points from the return of its integral query
\* (lines 189-203), and line 160, if points: the query raises, or it returns
\* and the daily points are computed.  The snapshot is not read again and
\* is reset.
PowIntegral ==
    /\ pcPow = "integral"
    /\ \E outcome \in StoreOutcomes :
          IF outcome = "ok"
          THEN \E result \in PowerIntegralResults, d \in power_data :
               \E order \in KeyOrders(DOMAIN result) :
                  /\ power_data' = {}
                  /\ pow_points' = compute_power_daily_Wh_points(result, order, d.ts)
                  /\ IF has_points(pow_points')
                     THEN /\ pcPow' = "write_lr"
                          /\ powLog' = [powLog EXCEPT !.integral = {result}]
                     ELSE /\ pcPow' = "wait"
                          /\ powLog' = [powLog EXCEPT !.integral = {result},
                                                      !.outcome = "completed"]
          ELSE PowRaise(outcome, powLog)
    /\ UNCHANGED <<envVars, hrStore, last_sample_timestamp, invVars, power_todays_date>>
    /\ UNCHANGED baseVars

\* lines 160-163: write(bucket=bucket_lr, record=points).  The rollover's
\* locals are not read again and are reset.
PowWriteLr ==
    /\ pcPow = "write_lr"
    /\ \E outcome \in StoreOutcomes :
          LET call == WriteCall(bucket_of_rollover_write, pow_points) IN
          IF outcome = "ok"
          THEN /\ pcPow' = "wait"
               /\ powLog' = [powLog EXCEPT !.lr = "ok", !.integral = {},
                                           !.outcome = "completed", !.sent = @ \cup {call}]
               /\ pow_points' = <<>>
               /\ UNCHANGED power_data
          ELSE PowRaise(outcome, [powLog EXCEPT !.lr = "failed", !.sent = @ \cup {call}])
    /\ UNCHANGED <<envVars, hrStore, last_sample_timestamp, invVars, power_todays_date>>
    /\ UNCHANGED baseVars

\* ------------------------------ the power batch of a given snapshot

\* The snapshots test_power_high_rate_points and
\* test_production_only_power_points hand to _power_high_rate_points: any
\* number of lines up to MaxSnapshotLines in each channel group.
GivenSnapshots(at) == [ts : {at}, lines : [DOMAIN MeasurementTypes -> 0 .. MaxSnapshotLines]]

\* line 60 with a given snapshot: points = _power_high_rate_points(power_data),
\* and line 61, if points.
PointsBuild ==
    /\ pcPow = "poll"
    /\ \E snapshot \in power_data :
          /\ pow_points' = power_high_rate_points(snapshot)
          /\ pcPow' = IF has_points(pow_points') THEN "write_hr"
                      ELSE step_after_cycle_write
    /\ powLog' = [powLog EXCEPT !.touched = @ \cup power_poll_touches]
    /\ UNCHANGED <<envVars, hrStore, last_sample_timestamp, invVars, power_data,
                   power_todays_date>>
    /\ UNCHANGED baseVars

\* lines 62-64 with a store that takes the write.
PointsWrite ==
    /\ pcPow = "write_hr"
    /\ powLog' = [powLog EXCEPT !.hr = "ok",
                     !.sent = @ \cup {WriteCall(bucket_of_cycle_write, pow_points)}]
    /\ pcPow' = step_after_cycle_write
    /\ UNCHANGED <<envVars, hrStore, last_sample_timestamp, invVars, power_data,
                   pow_points, power_todays_date>>
    /\ UNCHANGED baseVars
\* ------------------------------- SamplingEngine.collect_samples_with_retry

\* How a poll of the device may end: it returns; it raises ReadTimeout or
\* ConnectTimeout ("timeout"), another RequestException such as
\* ConnectionError or requests' SSLError ("request"), ssl.SSLError ("ssl"),
\* another OSError ("os"), or any other exception ("other").
PollOutcomes == {"ok", "timeout", "request", "ssl", "os", "other"}

\* The log of one collect call's device polls.
\*   power     the power polls made
\*   last      how the latest power poll ended
\*   sleeps    the back-off sleeps taken
\*   due       what the cadence gate answered: "none", "due", "not due"
\*   inverter  the inverter polls made
\*   lastInv   how the inverter poll ended
\*   device    the mapping the device returned to the inverter poll
EmptyColLog == [power |-> 0, last |-> "none", sleeps |-> 0, due |-> "none",
                inverter |-> 0, lastInv |-> "none", device |-> {}]

NoResult == [kind |-> "none"]

\* Variant of more_attempts that allows one attempt more.
more_attempts_inclusive(n, N) == n <= N

\* line 68, `for attempt in range(retries)`: there is a further attempt.
more_attempts(n, N) == n < N

\* Variant of retry_power_poll that retries after every failure the inverter
\* poll would forgive.
retry_power_poll_any_request(outcome) == outcome \in {"timeout", "request", "ssl", "os"}

\* line 78, `except (ReadTimeout, ConnectTimeout)`: the failures of a power
\* poll the loop goes round again after.
retry_power_poll(outcome) == outcome = "timeout"

\* Variant of power_poll_failed that lets a missing snapshot through.
power_poll_failed_never(data) == FALSE

\* line 92, `if power_data is None`.
power_poll_failed(data) == data = {}

\* line 94: the message of the TimeoutError.
TimeoutMessage == "Power sample collection timed out."

\* Variant of should_poll_inverters that wants more than the interval.
should_poll_inverters_strict(last_poll, at, interval) ==
    last_poll = {} \/ \A l \in last_poll : at - l > interval

\* _should_poll_inverters (lines 55-61).
should_poll_inverters(last_poll, at, interval) ==
    last_poll = {} \/ \A l \in last_poll : at - l >= interval

\* Variant of inverter_poll_degrades that forgives timeouts only.
inverter_poll_degrades_timeout_only(outcome) == outcome = "timeout"

\* line 107, `except (RequestException, ssl.SSLError, OSError)`: the failures
\* of the inverter poll that degrade to an empty mapping.
inverter_poll_degrades(outcome) == outcome \in {"timeout", "request", "ssl", "os"}

\* Variant of last_inverter_poll_after that stamps a failed poll too.
last_inverter_poll_after_any(last_poll, outcome, at) == {at}

\* lines 103-104 and 107-116: last_inverter_poll after an inverter poll.
last_inverter_poll_after(last_poll, outcome, at) ==
    IF outcome = "ok" THEN {at} ELSE last_poll

\* The call ends: it returns (power_data, inverter_data) or an exception
\* leaves it.  Its locals are gone.
ColEnd(result) ==
    /\ colResult' = result
    /\ pcCol' = "idle"
    /\ attempt' = 0
    /\ col_power_data' = {}

Returned(power, inverters) ==
    [kind |-> "returned", power |-> power, inverters |-> inverters]

Raised(exc, message) == [kind |-> "raised", exc |-> exc, message |-> message]

\* The engine's state that collect_samples_with_retry leaves alone.
ColFrame ==
    UNCHANGED <<aligner, started, faults, today, constructed_on, influxdb_bucket_lr, hrStore,
                pcInv, cutoff_ts,
                raw_inverter_data, inv_points, inverter_todays_date, invLog, powVars,
                inverter_interval_seconds, alignVars, runVars>>

\* Variant of ColAfterLoop: without a snapshot the call goes on to the
\* inverter poll all the same.
ColAfterLoop_polls_on(data) ==
    /\ pcCol' = IF power_poll_failed(data) THEN "inverter" ELSE "gate"
    /\ col_power_data' = data
    /\ attempt' = 0
    /\ colResult' = NoResult
\* Lines 92-100 once the retry loop is over: without a snapshot the call
\* raises TimeoutError, with one it goes on to the cadence gate.
ColAfterLoop(data) ==
    IF power_poll_failed(data)
    THEN ColEnd(Raised("TimeoutError", TimeoutMessage))
    ELSE /\ pcCol' = "gate"
         /\ col_power_data' = data
         /\ attempt' = 0
         /\ colResult' = NoResult

\* collect_samples_with_retry(retries, wait_seconds) is called (lines 63-68).
\* With retries = 0 the loop body never runs.
ColCall ==
    /\ pcCol = "idle"
    /\ colLog' = EmptyColLog
    /\ \E N \in 0 .. MaxRetries :
          /\ retries' = N
          /\ IF more_attempts(0, N)
             THEN /\ pcCol' = "power"
                  /\ attempt' = 0
                  /\ col_power_data' = {}
                  /\ colResult' = NoResult
             ELSE ColAfterLoop({})
    /\ UNCHANGED <<now, last_sample_timestamp, last_inverter_poll>>
    /\ ColFrame

\* lines 69-90: one attempt of the power poll.  A success leaves the loop; a
\* timeout goes round again, after a sleep when an attempt is left; any
\* other exception leaves the call.
ColPowerPoll ==
    /\ pcCol = "power"
    /\ \E outcome \in PollOutcomes :
          LET log == [colLog EXCEPT !.power = @ + 1, !.last = outcome]
          IN IF outcome = "ok"
             THEN \E snapshot \in PowerSnapshots(now) :
                     /\ last_sample_timestamp' = {now}
                     /\ colLog' = log
                     /\ ColAfterLoop({snapshot})
             ELSE IF retry_power_poll(outcome)
             THEN /\ colLog' = [log EXCEPT !.sleeps =
                                    IF attempt < retries - 1 THEN @ + 1 ELSE @]
                  /\ IF more_attempts(attempt + 1, retries)
                     THEN /\ attempt' = attempt + 1
                          /\ UNCHANGED <<pcCol, col_power_data, colResult>>
                     ELSE ColAfterLoop(col_power_data)
                  /\ UNCHANGED last_sample_timestamp
             ELSE /\ colLog' = log
                  /\ ColEnd(Raised(outcome, ""))
                  /\ UNCHANGED last_sample_timestamp
    /\ UNCHANGED <<now, last_inverter_poll, retries>>
    /\ ColFrame

\* lines 99-100: the cadence gate.
ColGate ==
    /\ pcCol = "gate"
    /\ IF should_poll_inverters(last_inverter_poll, now, inverter_interval_seconds)
       THEN /\ pcCol' = "inverter"
            /\ colLog' = [colLog EXCEPT !.due = "due"]
            /\ UNCHANGED <<attempt, col_power_data, colResult>>
       ELSE /\ colLog' = [colLog EXCEPT !.due = "not due"]
            /\ ColEnd(Returned(col_power_data, <<>>))
    /\ UNCHANGED <<now, last_sample_timestamp, last_inverter_poll, retries>>
    /\ ColFrame

\* lines 102-116: the one attempt of the inverter poll.
ColInverterPoll ==
    /\ pcCol = "inverter"
    /\ \E outcome \in PollOutcomes :
          LET log == [colLog EXCEPT !.inverter = @ + 1, !.lastInv = outcome]
          IN /\ last_inverter_poll' = last_inverter_poll_after(last_inverter_poll, outcome, now)
             /\ IF outcome = "ok"
                THEN \E device \in DeviceMaps :
                        /\ colLog' = [log EXCEPT !.device = {device}]
                        /\ ColEnd(Returned(col_power_data,
                                           get_inverter_data(device, last_sample_timestamp)))
                ELSE /\ colLog' = log
                     /\ IF inverter_poll_degrades(outcome)
                        THEN ColEnd(Returned(col_power_data, <<>>))
                        ELSE ColEnd(Raised(outcome, ""))
    /\ UNCHANGED <<now, last_sample_timestamp, retries>>
    /\ ColFrame

\* Time passes: during a poll, a back-off sleep, or between two calls.
ColTick ==
    /\ now < MaxNow
    /\ now' = now + 1
    /\ UNCHANGED <<last_sample_timestamp, last_inverter_poll, pcCol, retries, attempt,
                   col_power_data, colLog, colResult>>
    /\ ColFrame

\* ---------------------------------- SamplingEngine: wait_for_next_cycle

\* Time is counted in ticks of 1/80 s since the epoch second EpochSecond, so
\* that both 0.1 s (8 ticks) and 1/16 s (5 ticks) are whole numbers.  The
\* clock is read at multiples of 1/16 s only: such timestamps are exact as
\* floats, and so are their remainders and the differences of line 47.
TicksPerSecond == 80

\* The 0.1 of lines 44 and 45.
Tenth == TicksPerSecond \div 10

GridStep == TicksPerSecond \div 16

\* The epoch second the tests of wait_for_next_cycle freeze the clock at.
EpochSecond == 1704067200

\* SamplingEngine.__init__: interval_seconds: int = 60.
DefaultInterval == 60

\* The loop starts at the epoch second or 30 s into it.
StartSeconds == {0, 30}

\* The least grid instant that is not before t.
GridCeil(t) == ((t + GridStep - 1) \div GridStep) * GridStep

\* How much later than asked something can end: some grid steps or some
\* whole seconds.
Delays(n) == {k * GridStep : k \in 0 .. n} \cup {k * TicksPerSecond : k \in 1 .. n}

\* The log before the first cycle: no cycle has started.
EmptyAlignLog == [late |-> 0, work |-> 0, start |-> {}]

\* Line 40: remainder = now.timestamp() % self.interval_seconds, for the
\* timestamp EpochSecond + at / TicksPerSecond; the result is in ticks.
timestamp_remainder(at, interval) ==
    ((EpochSecond % interval) * TicksPerSecond + at) % (interval * TicksPerSecond)

time_to_next_cycle_no_floor(remainder, interval) ==
    interval * TicksPerSecond - remainder

time_to_next_cycle_whole_interval(remainder, interval) ==
    IF remainder < Tenth THEN Tenth ELSE interval * TicksPerSecond

\* Variant of time_to_next_cycle: what is left of the interval, taken modulo
\* the interval, with no floor.
time_to_next_cycle_modulo(remainder, interval) ==
    (interval * TicksPerSecond - remainder) % (interval * TicksPerSecond)
\* Lines 44-47: 0.1 s when the remainder is below 0.1, else what is left of
\* the interval.
time_to_next_cycle(remainder, interval) ==
    IF remainder < Tenth THEN Tenth ELSE interval * TicksPerSecond - remainder

\* The engine's state that wait_for_next_cycle and its caller's work leave
\* alone.
AlignFrame ==
    UNCHANGED <<envVars, hrStore, last_sample_timestamp, invVars, powVars, colVars,
                interval_seconds, runVars>>

\* Lines 38-47: wait_for_next_cycle reads the clock and computes the sleep.
AlignWait ==
    /\ pcAlign = "ready"
    /\ invoked' = clock
    /\ time_to_next' = time_to_next_cycle(timestamp_remainder(clock, interval_seconds),
                                          interval_seconds)
    /\ pcAlign' = "sleeping"
    /\ UNCHANGED <<clock, alignLog>>
    /\ AlignFrame

\* Lines 49-50: time.sleep(time_to_next) returns, no earlier than asked and
\* possibly late; the call returns and its locals are gone.
AlignWake ==
    /\ pcAlign = "sleeping"
    /\ \E late \in Delays(MaxLate) :
        LET at == GridCeil(invoked + time_to_next) + late IN
        /\ at <= MaxSeconds * TicksPerSecond
        /\ clock' = at
        /\ alignLog' = [late |-> at - (invoked + time_to_next), work |-> 0, start |-> {at}]
    /\ pcAlign' = "woken"
    /\ time_to_next' = 0
    /\ invoked' = 0
    /\ AlignFrame

\* Lines 51-53: KeyboardInterrupt during the sleep: sys.exit(0).
AlignInterrupt ==
    /\ pcAlign = "sleeping"
    /\ pcAlign' = "exited"
    /\ UNCHANGED <<clock, time_to_next, invoked, alignLog>>
    /\ AlignFrame

\* The caller's work of one cycle, between two calls of wait_for_next_cycle.
AlignWork ==
    /\ pcAlign = "woken"
    /\ \E d \in Delays(MaxWork) :
        /\ clock + d <= MaxSeconds * TicksPerSecond
        /\ clock' = clock + d
        /\ alignLog' = [alignLog EXCEPT !.work = d]
    /\ pcAlign' = "ready"
    /\ UNCHANGED <<time_to_next, invoked>>
    /\ AlignFrame

\* ------------------------------------------------------- the environment

\* Time passes, wherever the loops stand: while they sleep in their wait
\* and while they are blocked in a call of a cycle.  A step of a loop reads
\* the clock as it is when the step is taken (lines 86, 170).
Tick ==
    /\ now < MaxNow
    /\ now' = now + 1
    /\ UNCHANGED <<aligner, started, faults, today, constructed_on, influxdb_bucket_lr, hrStore,
                   last_sample_timestamp,
                   invVars, powVars>>
    /\ UNCHANGED baseVars

\* The local date changes, wherever the loops stand; a rollover check reads
\* it as it is when the check is made (lines 155, 166).
NewDay ==
    /\ today < MaxDay
    /\ today' = today + 1
    /\ UNCHANGED <<aligner, started, faults, now, constructed_on, influxdb_bucket_lr, hrStore,
                   last_sample_timestamp,
                   invVars, powVars>>
    /\ UNCHANGED baseVars

\* The process is restarted: the store keeps its points, everything held in
\* memory is lost.  The new engine is constructed (SamplingEngine.__init__
\* lines 19-30, InfluxdbSamplingEngine.__init__ lines 38-39) and its loops
\* stand before their first wait.
Restart ==
    /\ last_sample_timestamp' = {}
    /\ last_inverter_poll' = {}
    /\ inverter_todays_date' = date_at_construction(today)
    /\ power_todays_date' = date_at_construction(today)
    /\ pcInv' = IF "inverter" \in started THEN "wait" ELSE "idle"
    /\ pcPow' = IF "power" \in started THEN "wait" ELSE "idle"
    /\ cutoff_ts' = {}
    /\ raw_inverter_data' = <<>>
    /\ inv_points' = <<>>
    /\ invLog' = EmptyLog
    /\ power_data' = {}
    /\ pow_points' = <<>>
    /\ powLog' = EmptyLog
    /\ constructed_on' = today
    /\ UNCHANGED <<aligner, started, faults, now, today, influxdb_bucket_lr, hrStore>>
    /\ UNCHANGED baseVars

\* ------------------------------------------- InfluxdbSamplingEngine.run

\* Variant of thread_exited: join() also returns while the loop sleeps in
\* its wait.
thread_exited_or_waiting(pc) == pc \in {"dead", "wait"}

\* Thread.join() (lines 51-52) returns once the thread's target has ended;
\* the loops are `while True` and end only by an exception that leaves them.
thread_exited(pc) == pc = "dead"

\* Variant of can_step: the loops take a common lock for the length of a
\* cycle.
can_step_exclusive(other_pc) == other_pc \in {"idle", "wait", "dead"}

\* The loops run on threads of their own (lines 47-50) and take no lock:
\* wherever the other loop stands, a loop can take its next step.
can_step(other_pc) == TRUE

RunFrame ==
    UNCHANGED <<aligner, faults, now, today, constructed_on, influxdb_bucket_lr, hrStore,
                last_sample_timestamp, cutoff_ts,
                raw_inverter_data, inv_points, last_inverter_poll, inverter_todays_date,
                invLog, power_data, pow_points, power_todays_date, powLog, colVars,
                alignVars>>

\* Lines 47, 49: power_thread.start()
RunStartPower ==
    /\ pcRun = "start"
    /\ pcRun' = "start_inverter"
    /\ pcPow' = "wait"
    /\ started' = started \cup {"power"}
    /\ UNCHANGED <<pcInv, cancelled>>
    /\ RunFrame

\* Lines 48, 50: inverter_thread.start()
RunStartInverter ==
    /\ pcRun = "start_inverter"
    /\ pcRun' = "join_power"
    /\ pcInv' = "wait"
    /\ started' = started \cup {"inverter"}
    /\ UNCHANGED <<pcPow, cancelled>>
    /\ RunFrame

\* Line 51: power_thread.join()
RunJoinPower ==
    /\ pcRun = "join_power"
    /\ thread_exited(pcPow)
    /\ pcRun' = "join_inverter"
    /\ UNCHANGED <<started, pcInv, pcPow, cancelled>>
    /\ RunFrame

\* Line 52: inverter_thread.join(), then run() returns.
RunJoinInverter ==
    /\ pcRun = "join_inverter"
    /\ thread_exited(pcInv)
    /\ pcRun' = "returned"
    /\ UNCHANGED <<started, pcInv, pcPow, cancelled>>
    /\ RunFrame

\* The process is sent an interrupt signal while run() is under way: before
\* the first start(), between the two, or while it waits in a join.  The
\* signal is handled on the main thread: KeyboardInterrupt is raised there
\* and leaves run(), which has no handler (lines 41-52), with the threads
\* started so far and no other.  The loops' threads are not signalled and
\* nothing in lines 54-105 reads a flag.
Interrupt ==
    /\ ~cancelled
    /\ pcRun \in {"start", "start_inverter", "join_power", "join_inverter"}
    /\ cancelled' = TRUE
    /\ pcRun' = "interrupted"
    /\ UNCHANGED <<started, pcInv, pcPow>>
    /\ RunFrame

\* A step of the power loop's thread (lines 54-77).
RunPowerLoop ==
    /\ can_step(pcInv)
    /\ \/ PowWait
       \/ PowPoll
       \/ PowWriteHr
       \/ PowRollover
       \/ PowIntegral
       \/ PowWriteLr

\* A step of the inverter loop's thread (lines 79-105).
RunInverterLoop ==
    /\ can_step(pcPow)
    /\ \/ InvWait
       \/ InvQuery
       \/ InvPoll
       \/ InvWriteHr
       \/ InvRollover
       \/ InvIntegral
       \/ InvWriteLr

\* ------------------------------------------------------- specification

\* No collect_samples_with_retry call and no wait_for_next_cycle call of
\* SamplingEngine is under way, nor will be.
BaseIdle ==
    /\ inverter_interval_seconds = MaxInterval
    /\ pcCol = "off"
    /\ retries = 0
    /\ attempt = 0
    /\ col_power_data = {}
    /\ colLog = EmptyColLog
    /\ colResult = NoResult
    /\ interval_seconds = 1
    /\ clock = 0
    /\ pcAlign = "off"
    /\ time_to_next = 0
    /\ invoked = 0
    /\ alignLog = EmptyAlignLog
    /\ pcRun = "off"
    /\ cancelled = FALSE

\* The loops started: one loop alone on a thread (as the loop tests start
\* it).
Starts == {{"inverter"}, {"power"}}

Init ==
    /\ aligner \in {"base", "stub"}
    /\ started \in Starts
    /\ faults \in BOOLEAN
    /\ now = 1
    /\ today = 0
    /\ constructed_on = today
    /\ influxdb_bucket_lr = "foobar_lr"
    /\ hrStore = {}
    /\ last_sample_timestamp = {}
    /\ last_inverter_poll = {}
    /\ inverter_todays_date = date_at_construction(today)
    /\ power_todays_date = date_at_construction(today)
    /\ pcInv = IF "inverter" \in started THEN "wait" ELSE "idle"
    /\ pcPow = IF "power" \in started THEN "wait" ELSE "idle"
    /\ cutoff_ts = {}
    /\ raw_inverter_data = <<>>
    /\ inv_points = <<>>
    /\ invLog = EmptyLog
    /\ power_data = {}
    /\ pow_points = <<>>
    /\ powLog = EmptyLog
    /\ BaseIdle

Next ==
    \/ InvWait
    \/ InvQuery
    \/ InvPoll
    \/ InvWriteHr
    \/ InvRollover
    \/ InvIntegral
    \/ InvWriteLr
    \/ PowWait
    \/ PowPoll
    \/ PowWriteHr
    \/ PowRollover
    \/ PowIntegral
    \/ PowWriteLr
    \/ Tick
    \/ NewDay
    \/ Restart

Spec == Init /\ [][Next]_vars

\* A SamplingEngine whose collect_samples_with_retry is called tick after
\* tick (SamplingEngine.__init__, lines 19-30); no loop of the InfluxDB
\* engine runs.
ColInit ==
    /\ aligner = "stub"
    /\ started = {}
    /\ faults = FALSE
    /\ now = 1
    /\ today = 0
    /\ constructed_on = today
    /\ influxdb_bucket_lr = "foobar_lr"
    /\ hrStore = {}
    /\ last_sample_timestamp = {}
    /\ last_inverter_poll = {}
    /\ inverter_todays_date = date_at_construction(today)
    /\ power_todays_date = date_at_construction(today)
    /\ pcInv = "idle"
    /\ pcPow = "idle"
    /\ cutoff_ts = {}
    /\ raw_inverter_data = <<>>
    /\ inv_points = <<>>
    /\ invLog = EmptyLog
    /\ power_data = {}
    /\ pow_points = <<>>
    /\ powLog = EmptyLog
    /\ inverter_interval_seconds \in 1 .. MaxInterval
    /\ pcCol = "idle"
    /\ retries = 0
    /\ attempt = 0
    /\ col_power_data = {}
    /\ colLog = EmptyColLog
    /\ colResult = NoResult
    /\ interval_seconds = 1
    /\ clock = 0
    /\ pcAlign = "off"
    /\ time_to_next = 0
    /\ invoked = 0
    /\ alignLog = EmptyAlignLog
    /\ pcRun = "off"
    /\ cancelled = FALSE

ColNext ==
    \/ ColCall
    \/ ColPowerPoll
    \/ ColGate
    \/ ColInverterPoll
    \/ ColTick

SpecCollect == ColInit /\ [][ColNext]_vars

\* A loop that calls wait_for_next_cycle, works, and calls it again
\* (SamplingEngine.__init__, lines 21-30); no poll is modelled.
AlignInit ==
    /\ aligner = "stub"
    /\ started = {}
    /\ faults = FALSE
    /\ now = 1
    /\ today = 0
    /\ constructed_on = today
    /\ influxdb_bucket_lr = "foobar_lr"
    /\ hrStore = {}
    /\ last_sample_timestamp = {}
    /\ last_inverter_poll = {}
    /\ inverter_todays_date = date_at_construction(today)
    /\ power_todays_date = date_at_construction(today)
    /\ pcInv = "idle"
    /\ pcPow = "idle"
    /\ cutoff_ts = {}
    /\ raw_inverter_data = <<>>
    /\ inv_points = <<>>
    /\ invLog = EmptyLog
    /\ power_data = {}
    /\ pow_points = <<>>
    /\ powLog = EmptyLog
    /\ inverter_interval_seconds = MaxInterval
    /\ pcCol = "off"
    /\ retries = 0
    /\ attempt = 0
    /\ col_power_data = {}
    /\ colLog = EmptyColLog
    /\ colResult = NoResult
    /\ interval_seconds \in (1 .. MaxAlignInterval) \cup {DefaultInterval}
    /\ clock \in {sec * TicksPerSecond + k * GridStep : sec \in StartSeconds, k \in 0 .. MaxSub}
               \cup {(sec + 1) * TicksPerSecond - k * GridStep :
                        sec \in StartSeconds, k \in 1 .. MaxSub}
    /\ pcAlign = "ready"
    /\ time_to_next = 0
    /\ invoked = 0
    /\ alignLog = EmptyAlignLog
    /\ pcRun = "off"
    /\ cancelled = FALSE

AlignNext ==
    \/ AlignWait
    \/ AlignWake
    \/ AlignInterrupt
    \/ AlignWork

SpecAlign == AlignInit /\ [][AlignNext]_vars

\* cli.main: the engine is constructed and run() is called on the main
\* thread (lines 20-52); the clock stands still, the local date may change,
\* and any call to the store may raise or return.
RunInit ==
    /\ aligner \in {"base", "stub"}
    /\ started = {}
    /\ faults = TRUE
    /\ now = 1
    /\ today = 0
    /\ constructed_on = today
    /\ influxdb_bucket_lr = "foobar_lr"
    /\ hrStore = {}
    /\ last_sample_timestamp = {}
    /\ last_inverter_poll = {}
    /\ inverter_todays_date = date_at_construction(today)
    /\ power_todays_date = date_at_construction(today)
    /\ pcInv = "idle"
    /\ pcPow = "idle"
    /\ cutoff_ts = {}
    /\ raw_inverter_data = <<>>
    /\ inv_points = <<>>
    /\ invLog = EmptyLog
    /\ power_data = {}
    /\ pow_points = <<>>
    /\ powLog = EmptyLog
    /\ inverter_interval_seconds = MaxInterval
    /\ pcCol = "off"
    /\ retries = 0
    /\ attempt = 0
    /\ col_power_data = {}
    /\ colLog = EmptyColLog
    /\ colResult = NoResult
    /\ interval_seconds = 1
    /\ clock = 0
    /\ pcAlign = "off"
    /\ time_to_next = 0
    /\ invoked = 0
    /\ alignLog = EmptyAlignLog
    /\ pcRun = "start"
    /\ cancelled = FALSE

RunNext ==
    \/ RunStartPower
    \/ RunStartInverter
    \/ RunJoinPower
    \/ RunJoinInverter
    \/ Interrupt
    \/ RunPowerLoop
    \/ RunInverterLoop
    \/ NewDay

SpecRun == RunInit /\ [][RunNext]_vars

\* The threads are scheduled fairly: a thread that can take a step takes one.
SpecRunFair ==
    /\ SpecRun
    /\ WF_vars(RunStartPower \/ RunStartInverter \/ RunJoinPower \/ RunJoinInverter)
    /\ WF_vars(RunPowerLoop)
    /\ WF_vars(RunInverterLoop)

\* _power_high_rate_points and the write that follows it, for a snapshot
\* given beforehand (the point tests, lines 63-93 and 434-456 of
\* test_influxdb_sampling_engine.py); nothing else runs.
PointsInit ==
    /\ aligner = "stub"
    /\ started = {"power"}
    /\ faults = FALSE
    /\ now \in 1 .. MaxNow
    /\ today = 0
    /\ constructed_on = today
    /\ influxdb_bucket_lr = "foobar_lr"
    /\ hrStore = {}
    /\ last_sample_timestamp = {}
    /\ last_inverter_poll = {}
    /\ inverter_todays_date = date_at_construction(today)
    /\ power_todays_date = date_at_construction(today)
    /\ pcInv = "idle"
    /\ pcPow = "poll"
    /\ cutoff_ts = {}
    /\ raw_inverter_data = <<>>
    /\ inv_points = <<>>
    /\ invLog = EmptyLog
    /\ power_data \in {{snapshot} : snapshot \in GivenSnapshots(now)}
    /\ pow_points = <<>>
    /\ powLog = EmptyLog
    /\ BaseIdle

PointsNext ==
    \/ PointsBuild
    \/ PointsWrite

SpecPoints == PointsInit /\ [][PointsNext]_vars
\* The inverter loop alone, with the daily bucket under a name of its own or
\* under the high-rate bucket's name; no call to the store raises.
BucketsInit ==
    /\ aligner = "stub"
    /\ started = {"inverter"}
    /\ faults = FALSE
    /\ now = 1
    /\ today = 0
    /\ constructed_on = today
    /\ influxdb_bucket_lr \in BucketNames
    /\ hrStore = {}
    /\ last_sample_timestamp = {}
    /\ last_inverter_poll = {}
    /\ inverter_todays_date = date_at_construction(today)
    /\ power_todays_date = date_at_construction(today)
    /\ pcInv = "wait"
    /\ pcPow = "idle"
    /\ cutoff_ts = {}
    /\ raw_inverter_data = <<>>
    /\ inv_points = <<>>
    /\ invLog = EmptyLog
    /\ power_data = {}
    /\ pow_points = <<>>
    /\ powLog = EmptyLog
    /\ BaseIdle

BucketsNext ==
    \/ InvWait
    \/ InvQuery
    \/ InvPoll
    \/ InvWriteHr
    \/ InvRollover
    \/ InvIntegral
    \/ InvWriteLr
    \/ Tick
    \/ NewDay

SpecBuckets == BucketsInit /\ [][BucketsNext]_vars
\* ------------------------------------------------- properties: the filter

\* The readings of a device mapping, as the points they would be written as.
ReadingsOf(data) == {point_from_inverter(s, data[s]) : s \in DOMAIN data}

\* C1: in every inverter cycle the batch handed to the high-rate write is
\* exactly the set of returned readings stamped strictly later than the
\* cycle's cutoff, every returned reading when the cutoff is absent; a
\* reading stamped at the cutoff is never in it.  A write is issued iff the
\* batch is not empty, and then the store holds the batch.
C1_BatchIsReadingsNewerThanCutoff ==
    pcInv \in {"write_hr", "rollover"} =>
        /\ Range(inv_points) =
               {p \in ReadingsOf(raw_inverter_data) : \A c \in cutoff_ts : p.ts > c}
        /\ Len(inv_points) = Cardinality(Range(inv_points))
        /\ \A p \in Range(inv_points) : p.ts \notin cutoff_ts
        /\ cutoff_ts = {} => Range(inv_points) = ReadingsOf(raw_inverter_data)
        /\ pcInv = "write_hr" => inv_points # <<>> /\ invLog.hr = "none"
        /\ pcInv = "rollover" =>
               /\ invLog.hr = "ok" <=> inv_points # <<>>
               /\ Range(inv_points) \subseteq hrStore

\* C1 happens: a cycle with a cutoff wrote a later reading and dropped one
\* stamped exactly at the cutoff.
C1_Witness ==
    /\ pcInv = "rollover"
    /\ invLog.hr = "ok"
    /\ cutoff_ts # {}
    /\ \E s \in DOMAIN raw_inverter_data : raw_inverter_data[s] \in cutoff_ts
    /\ \E p \in Range(inv_points) : \A c \in cutoff_ts : p.ts > c

\* C2, state part: after a failed watermark query the cutoff is absent, the
\* batch is every returned reading, and once written the store holds them all.
C2_AfterFailedQuery ==
    invLog.cutoffQ = "failed" /\ pcInv \in {"poll", "write_hr", "rollover"} =>
        /\ cutoff_ts = {}
        /\ pcInv # "poll" => Range(inv_points) = ReadingsOf(raw_inverter_data)
        /\ pcInv = "rollover" => ReadingsOf(raw_inverter_data) \subseteq hrStore

\* C2, step part: a watermark query that fails leaves the loop at its device
\* poll, the cycle still running.
C2_FailedQueryStep ==
    pcInv = "query" /\ invLog'.cutoffQ = "failed" =>
        /\ pcInv' = "poll"
        /\ cutoff_ts' = {}
        /\ invLog'.outcome = "running"

\* C2: if the watermark query fails, the cutoff is treated as absent, all the
\* readings the device returns in that cycle are retained and written, and
\* the failure itself never aborts the cycle.
C2_FailedQueryKeepsAll == [](C2_AfterFailedQuery) /\ [][C2_FailedQueryStep]_vars

\* C2 happens: after a failed query a cycle wrote both returned readings, one
\* of which the store held already.
C2_Witness ==
    /\ pcInv = "rollover"
    /\ invLog.cutoffQ = "failed"
    /\ invLog.hr = "ok"
    /\ Cardinality(DOMAIN raw_inverter_data) = 2
    /\ invLog.again # {}

\* C3 as stated: when the watermark query raises in a cycle in which the
\* device returns at least one reading, no write call is issued.
C3_FailedQueryWritesNothing ==
    /\ invLog.cutoffQ = "failed"
    /\ pcInv \in {"write_hr", "rollover"}
    /\ DOMAIN raw_inverter_data # {}
    => invLog.hr = "none" /\ pcInv # "write_hr"

\* C4 as stated: in a run in which every watermark query and every write
\* succeeds, no high-rate write holds a point (serial, timestamp) the store
\* held already.
C4_NeverWrittenTwice ==
    ~faults => invLog.again = {}

\* C4 amended: a high-rate write of a cycle whose watermark query succeeded
\* holds a point the store held already only if that point's timestamp was
\* outside the query's look-back window [now - 30d, now] when the query ran.
C4_NoRewriteWithinLookback ==
    invLog.cutoffQ = "ok" =>
        \A p \in invLog.again : \E q \in invLog.queryAt : ~InRange(p.ts, q)

\* C4 happens: a cycle whose query succeeded wrote a new reading and left out
\* a re-reported one the store held within the look-back window.
C4_Witness ==
    /\ pcInv = "rollover"
    /\ invLog.cutoffQ = "ok"
    /\ invLog.hr = "ok"
    /\ invLog.again = {}
    /\ \E p \in ReadingsOf(raw_inverter_data) \cap hrStore :
          /\ p \notin Range(inv_points)
          /\ \A q \in invLog.queryAt : InRange(p.ts, q)

\* C5 as stated: in a cycle whose watermark query, device poll and write all
\* succeeded, every returned reading is in the store: it was written before
\* or it was in this cycle's batch.
C5_NoReadingLost ==
    pcInv = "rollover" /\ invLog.cutoffQ = "ok" /\ invLog.hr = "ok" =>
        ReadingsOf(raw_inverter_data) \subseteq hrStore

\* ----------------------------------------------- properties: the rollover

\* A step of the inverter loop out of its rollover check, one in which its
\* integral query ends, and one out of its daily write (a restart is none).
InvRolloverStep ==
    pcInv = "rollover" /\ (pcInv' = "integral" \/ invLog'.outcome # "running")

InvIntegralStep ==
    pcInv = "integral" /\ (pcInv' = "write_lr" \/ invLog'.outcome # "running")

InvWriteLrStep ==
    pcInv = "write_lr" /\ invLog'.outcome # "running"

\* The same for the power loop.
PowRolloverStep ==
    pcPow = "rollover" /\ (pcPow' = "integral" \/ powLog'.outcome # "running")

PowIntegralStep ==
    pcPow = "integral" /\ (pcPow' = "write_lr" \/ powLog'.outcome # "running")

PowWriteLrStep ==
    pcPow = "write_lr" /\ powLog'.outcome # "running"

C6_Step ==
    /\ pcInv = "rollover" /\ inverter_todays_date = today =>
          /\ invLog'.rollQ = invLog.rollQ
          /\ invLog'.lr = invLog.lr
          /\ pcInv' \notin {"integral", "write_lr"}
          /\ inverter_todays_date' = inverter_todays_date
    /\ pcPow = "rollover" /\ power_todays_date = today =>
          /\ powLog'.rollQ = powLog.rollQ
          /\ powLog'.lr = powLog.lr
          /\ pcPow' \notin {"integral", "write_lr"}
          /\ power_todays_date' = power_todays_date
    /\ invLog'.rollQ <= 1
    /\ powLog'.rollQ <= 1

\* C6: for each cadence, a rollover check made while the local date equals
\* the stored last-rollover date issues no integral query and no write and
\* leaves the stored date alone; no cycle issues more than one integral
\* query.
C6_RolloverIdempotent == [][C6_Step]_vars

\* C6 happens: on a later date an inverter cycle wrote its readings and
\* completed its rollover check without a query.
C6_Witness ==
    /\ pcInv = "wait"
    /\ invLog.outcome = "completed"
    /\ invLog.hr = "ok"
    /\ invLog.rollQ = 0
    /\ invLog.lr = "none"
    /\ inverter_todays_date = today
    /\ today > 0

\* C7: the points of an inverter daily rollover hold exactly one point per
\* expected device, with the integral's value when the result has the device
\* and 0.0 Wh when it has not.
C7_OnePointPerExpectedDevice ==
    \A result \in invLog.integral :
        \A s \in invLog.expected :
            /\ Cardinality({i \in DOMAIN inv_points : inv_points[i].serial = s}) = 1
            /\ \A i \in DOMAIN inv_points :
                  inv_points[i].serial = s =>
                      inv_points[i].Wh = IF s \in DOMAIN result THEN result[s] ELSE 0

\* C7 happens: expected = {A, B} and result = {A: 12.5} gave the points
\* {A: 12.5, B: 0.0}, on their way to the daily write.
C7_Witness ==
    /\ pcInv = "write_lr"
    /\ invLog.expected = {"A", "B"}
    /\ \E result \in invLog.integral : DOMAIN result = {"A"} /\ result["A"] = 125
    /\ {[serial |-> p.serial, Wh |-> p.Wh] : p \in Range(inv_points)} =
           {[serial |-> "A", Wh |-> 125], [serial |-> "B", Wh |-> 0]}
    /\ Len(inv_points) = 2

\* C8: a power rollover whose integral query returned zero groups issued
\* exactly one query, produced zero points and issued no write.
C8_PowerRolloverNoGroups ==
    \A result \in powLog.integral :
        DOMAIN result = {} =>
            /\ powLog.rollQ = 1
            /\ pow_points = <<>>
            /\ powLog.lr = "none"
            /\ pcPow = "wait"
            /\ powLog.outcome = "completed"

\* C8 happens: a power cycle wrote its snapshot and ran a rollover whose
\* integral query returned no group.
C8_Witness ==
    /\ \E result \in powLog.integral : DOMAIN result = {}
    /\ powLog.hr = "ok"
    /\ powLog.rollQ = 1
    /\ power_todays_date = today

\* C9: an inverter rollover with an empty integral result and an empty
\* expected-device set produced no points and issued no write.
C9_InverterRolloverNothingExpected ==
    \A result \in invLog.integral :
        DOMAIN result = {} /\ invLog.expected = {} =>
            /\ inv_points = <<>>
            /\ invLog.lr = "none"
            /\ pcInv = "wait"
            /\ invLog.outcome = "completed"

\* C9 happens: an inverter rollover ran with an empty result and no expected
\* device.
C9_Witness ==
    /\ \E result \in invLog.integral : DOMAIN result = {}
    /\ invLog.expected = {}
    /\ invLog.rollQ = 1
    /\ pcInv = "wait"

C10_Step ==
    /\ InvRolloverStep /\ inverter_todays_date # today =>
          /\ inverter_todays_date' = today
          /\ invLog.rollQ = 0 /\ invLog'.rollQ = 1
          /\ pcInv' = "integral"
    /\ InvIntegralStep =>
          /\ inverter_todays_date' = inverter_todays_date
          /\ invLog.rollQ = 1 /\ invLog'.rollQ = 1
          /\ invLog'.lr = "none"
          /\ pcInv' = "write_lr" <=> inv_points' # <<>>
    /\ InvWriteLrStep =>
          /\ inv_points # <<>>
          /\ invLog.lr = "none" /\ invLog'.lr \in {"ok", "failed"}
          /\ pcInv' \in {"wait", "dead"}
    /\ PowRolloverStep /\ power_todays_date # today =>
          /\ power_todays_date' = today
          /\ powLog.rollQ = 0 /\ powLog'.rollQ = 1
          /\ pcPow' = "integral"
    /\ PowIntegralStep =>
          /\ power_todays_date' = power_todays_date
          /\ powLog.rollQ = 1 /\ powLog'.rollQ = 1
          /\ powLog'.lr = "none"
          /\ pcPow' = "write_lr" <=> pow_points' # <<>>
          /\ \A result \in powLog'.integral :
                /\ Len(pow_points') = Cardinality(DOMAIN result)
                /\ \A g \in DOMAIN result : \E i \in DOMAIN pow_points' :
                      /\ pow_points'[i].mtype = g.mtype
                      /\ pow_points'[i].idx = g.idx
                      /\ pow_points'[i].Wh = result[g]
    /\ PowWriteLrStep =>
          /\ pow_points # <<>>
          /\ powLog.lr = "none" /\ powLog'.lr \in {"ok", "failed"}
          /\ pcPow' \in {"wait", "dead"}

\* C10: a rollover check that finds the stored date different from today's
\* sets the stored date to today and issues exactly one integral query; if
\* the result yields points the loop goes on to one write of them to the
\* daily bucket, after which the cycle ends, and otherwise to no write; the
\* power rollover's points are one per returned group.
C10_RolloverOnDateChange == [][C10_Step]_vars

\* C10 happens: a power cycle found the date changed, queried once and wrote
\* the daily points.
C10_Witness ==
    /\ pcPow = "wait"
    /\ powLog.outcome = "completed"
    /\ powLog.rollQ = 1
    /\ powLog.lr = "ok"
    /\ power_todays_date = today
    /\ today > 0

\* ---------------------------------------- properties: the retry policy

\* The failures of a power poll that are no timeout.
NonTimeoutFailures == {"request", "ssl", "os", "other"}

C11_State ==
    /\ colLog.power <= retries
    /\ colLog.last = "ok" => pcCol # "power"
    /\ colLog.last \in NonTimeoutFailures =>
          /\ pcCol = "idle"
          /\ colResult = Raised(colLog.last, "")
    /\ colResult.kind = "raised" /\ colResult.exc = "TimeoutError" =>
          colLog.power = retries

C11_Step ==
    pcCol = "power" /\ colLog'.power # colLog.power =>
        /\ colLog'.power = colLog.power + 1
        /\ colLog.power < retries
        /\ colLog.last \in {"none", "timeout"}

\* C11: collect_samples_with_retry(retries = N) polls power at most N times,
\* never again after a success, and again only after a timeout; when it
\* raises TimeoutError exactly N polls were made; a failure that is no
\* timeout ends the call at once with that exception.
C11_PowerRetryOnTimeoutOnly == [](C11_State) /\ [][C11_Step]_vars

\* C11 happens: with retries = 2 the first power poll timed out, the call
\* slept once and the second poll succeeded.
C11_Witness ==
    /\ retries = 2
    /\ colLog.power = 2
    /\ colLog.sleeps = 1
    /\ colLog.last = "ok"

\* C12: when every power poll attempt of a call timed out, the call has ended
\* with a TimeoutError: no snapshot is held, the cadence gate was not asked
\* and no inverter poll was made.
C12_ExhaustedRaisesTimeout ==
    \/ colLog.power = retries /\ colLog.last = "timeout"
    \/ retries = 0 /\ colResult.kind # "none"
    =>  /\ pcCol = "idle"
        /\ colResult.kind = "raised"
        /\ colResult.exc = "TimeoutError"
        /\ col_power_data = {}
        /\ colLog.due = "none"
        /\ colLog.inverter = 0

\* C12 happens: a call with retries = 2 made two polls, both timed out, and
\* raised.
C12_Witness ==
    /\ retries = 2
    /\ colLog.power = 2
    /\ colLog.last = "timeout"
    /\ colResult.kind = "raised"
    /\ colResult.exc = "TimeoutError"
    /\ pcCol = "idle"

\* C13 as stated: the TimeoutError raised once the retry budget is exhausted
\* carries exactly the message "Sample collection timed out.".
C13_TimeoutMessage ==
    colResult.kind = "raised" /\ colResult.exc = "TimeoutError" =>
        colResult.message = "Sample collection timed out."

\* C14 as stated: a power-loop cycle that a timeout of the power poll made
\* skip polled more than once: the poll that timed out was re-attempted in
\* the same cycle.
C14_PowerLoopRetriesTimeout ==
    powLog.outcome = "skipped" /\ powLog.timeouts > 0 => powLog.polls > 1

\* ------------------------------------------ properties: the cadence gate

\* The cadence gate is due in the current state.
GateDue ==
    \/ last_inverter_poll = {}
    \/ \E l \in last_inverter_poll : now - l >= inverter_interval_seconds

C15_State ==
    /\ pcCol = "inverter" => colLog.due = "due"
    /\ colLog.inverter > 0 => colLog.due = "due"
    /\ colLog.due = "not due" =>
          /\ colLog.inverter = 0
          /\ pcCol = "idle"
          /\ colResult.kind = "returned"
          /\ colResult.inverters = <<>>

C15_Step ==
    pcCol = "gate" /\ pcCol' # "gate" =>
        IF GateDue
        THEN pcCol' = "inverter" /\ colLog'.due = "due"
        ELSE /\ pcCol' = "idle"
             /\ colLog'.due = "not due"
             /\ colLog'.inverter = 0
             /\ colResult' = Returned(col_power_data, <<>>)
             /\ last_inverter_poll' = last_inverter_poll

\* C15: a collect call polls inverters iff, when it reaches the gate,
\* last_inverter_poll is absent or now - last_inverter_poll is at least
\* inverter_interval; a call that finds the gate not due returns an empty
\* inverter mapping without calling the device's inverter endpoint.
C15_CadenceGate == [](C15_State) /\ [][C15_Step]_vars

\* C15 happens: after an inverter poll, a call made before the interval had
\* elapsed found the gate not due and returned an empty mapping.
C15_Witness ==
    /\ colLog.due = "not due"
    /\ colResult.kind = "returned"
    /\ colResult.inverters = <<>>
    /\ colLog.inverter = 0
    /\ \E l \in last_inverter_poll : now - l < inverter_interval_seconds /\ now > l

C16_Step ==
    /\ pcCol = "inverter" /\ pcCol' # "inverter" =>
          /\ colLog'.lastInv = "ok" => last_inverter_poll' = {now}
          /\ colLog'.lastInv # "ok" =>
                /\ last_inverter_poll' = last_inverter_poll
                /\ last_inverter_poll' = {} \/
                      \E l \in last_inverter_poll' : now' - l >= inverter_interval_seconds
    /\ pcInv = "poll" /\ pcInv' \in {"write_hr", "rollover"} => last_inverter_poll' = {now}
    /\ pcInv = "poll" /\ invLog'.outcome \in {"skipped", "died"} =>
          last_inverter_poll' = last_inverter_poll

\* C16: an inverter poll that succeeds sets last_inverter_poll to the current
\* time, also when it yields no reading; one that fails leaves it unchanged,
\* so the gate it passed is still due.
C16_LastInverterPoll == [][C16_Step]_vars

\* C16 happens: an inverter poll returned no reading and last_inverter_poll
\* is the time of that poll.
C16_Witness ==
    /\ pcCol = "idle"
    /\ colLog.lastInv = "ok"
    /\ \E d \in colLog.device : DOMAIN d = {}
    /\ last_inverter_poll = {now}
    /\ now > 1

\* The failures of the inverter poll the claim names: timeout, connection
\* error (a RequestException), TLS error, socket error.
NamedInverterFailures == {"timeout", "request", "ssl", "os"}

\* C17: a collect call makes at most one inverter poll, exactly one when the
\* gate was due; when that poll fails with a timeout, a connection error, a
\* TLS error or a socket error the call returns the power snapshot it
\* obtained with an empty inverter mapping and raises nothing.
C17_InverterPollDegrades ==
    /\ colLog.inverter <= 1
    /\ pcCol = "idle" /\ colLog.due = "due" => colLog.inverter = 1
    /\ colLog.lastInv \in NamedInverterFailures =>
          /\ pcCol = "idle"
          /\ colResult.kind = "returned"
          /\ colResult.inverters = <<>>
          /\ Cardinality(colResult.power) = 1
          /\ \A d \in colResult.power : last_sample_timestamp = {d.ts}

\* C17 happens: the inverter poll failed with a TLS error and the call
\* returned the snapshot of its second power attempt.
C17_Witness ==
    /\ colLog.lastInv = "ssl"
    /\ colLog.power = 2
    /\ colResult.kind = "returned"
    /\ colResult.power # {}

\* C18 as stated: when the gate is due and both polls succeed, the call
\* returns the complete inverter mapping the device returned.
C18_CompleteMappingReturned ==
    colLog.last = "ok" /\ colLog.lastInv = "ok" =>
        /\ colResult.kind = "returned"
        /\ \A d \in colLog.device : colResult.inverters = d

\* ------------------------------------------- properties: the cycle aligner

\* C19: wait_for_next_cycle sleeps 0.1 s when the remainder of the
\* invocation time modulo the interval is below 0.1 s, and the interval
\* minus the remainder otherwise; with an interval of 60 s it sleeps 0.1 s
\* when invoked at the epoch second 1704067200 and 30 s when invoked at
\* 1704067230.
C19_SleepDuration ==
    pcAlign = "sleeping" =>
        LET remainder == timestamp_remainder(invoked, interval_seconds) IN
        /\ remainder < Tenth => time_to_next = Tenth
        /\ remainder >= Tenth =>
               time_to_next = interval_seconds * TicksPerSecond - remainder
        /\ interval_seconds = 60 /\ invoked = 0 => time_to_next = Tenth
        /\ interval_seconds = 60 /\ invoked = 30 * TicksPerSecond =>
               time_to_next = 30 * TicksPerSecond

\* The call at 1704067230 with an interval of 60 s sleeps 30 s.
C19_Witness ==
    /\ pcAlign = "sleeping"
    /\ interval_seconds = 60
    /\ invoked = 30 * TicksPerSecond
    /\ time_to_next = 30 * TicksPerSecond

\* The call at 1704067200 with an interval of 60 s sleeps 0.1 s.
C19_BoundaryReached ==
    /\ pcAlign = "sleeping"
    /\ interval_seconds = 60
    /\ invoked = 0
    /\ time_to_next = Tenth

\* C20: whenever wait_for_next_cycle is invoked at a time whose remainder
\* is at least 0.1 s, the invocation time plus the computed sleep is exactly
\* the next multiple of the interval, however late the earlier sleep ended
\* and however long the work since then took.
C20_NoDrift ==
    pcAlign = "sleeping" /\ timestamp_remainder(invoked, interval_seconds) >= Tenth =>
        LET wake == invoked + time_to_next IN
        /\ timestamp_remainder(wake, interval_seconds) = 0
        /\ wake > invoked
        /\ wake - invoked < interval_seconds * TicksPerSecond

\* A call after a sleep that ended at least a second late and after work
\* that took longer than the interval, at a time off the boundary, aims at
\* a boundary.
C20_Witness ==
    /\ pcAlign = "sleeping"
    /\ alignLog.late >= TicksPerSecond
    /\ alignLog.work > interval_seconds * TicksPerSecond
    /\ timestamp_remainder(invoked, interval_seconds) >= Tenth
    /\ timestamp_remainder(invoked + time_to_next, interval_seconds) = 0

\* ------------------------------------------------ properties: the loops

\* C21 as stated, its last part: the wait step completes without error in
\* both loops: a loop that leaves its wait enters the cycle (the inverter
\* loop its watermark query, the power loop its poll).
C21_Step ==
    /\ (pcInv = "wait" /\ pcInv' # "wait") => pcInv' = "query"
    /\ (pcPow = "wait" /\ pcPow' # "wait") => pcPow' = "poll"

C21_WaitCompletes == [][C21_Step]_vars

\* C22 as stated, for the store's write: a cycle whose write() raised is
\* skipped and its loop is not left.
C22_WriteErrorStaysInLoop ==
    /\ (invLog.hr = "failed" \/ invLog.lr = "failed") => invLog.outcome # "died"
    /\ (powLog.hr = "failed" \/ powLog.lr = "failed") => powLog.outcome # "died"

\* C23: when the device poll of a cycle fails with an exception the loop
\* catches (a connection error, a timeout), the cycle ends there: the loop
\* is back at its wait, and the cycle has issued no write call, neither to
\* the high-rate nor to the daily bucket, and has left the store as it was.
C23_Step ==
    /\ (pcInv = "poll" /\ invLog'.outcome = "skipped") =>
           /\ pcInv' = "wait"
           /\ invLog'.hr = "none" /\ invLog'.lr = "none" /\ invLog'.sent = {}
           /\ invLog'.rollQ = 0
           /\ hrStore' = hrStore
    /\ (pcPow = "poll" /\ powLog'.outcome = "skipped") =>
           /\ pcPow' = "wait"
           /\ powLog'.hr = "none" /\ powLog'.lr = "none" /\ powLog'.sent = {}
           /\ powLog'.rollQ = 0
           /\ hrStore' = hrStore

C23_FailedPollWritesNothing == [][C23_Step]_vars

\* An inverter cycle whose watermark query ran and whose poll failed is
\* over without a write.
C23_Witness ==
    /\ pcInv = "wait"
    /\ invLog.outcome = "skipped"
    /\ invLog.cutoffQ = "ok"
    /\ invLog.hr = "none" /\ invLog.lr = "none" /\ invLog.rollQ = 0

\* The integral query of a loop's rollover raised in the cycle logged.
IntegralQueryFailed(log) ==
    log.rollQ > 0 /\ log.lr = "none" /\ log.outcome \in {"skipped", "died"}

\* C24 as stated: when the rollover's integral query fails, the loop's
\* handler catches the exception: no daily write is issued, the cycle is
\* skipped and the loop is at its next wait.
C24_IntegralFailureSkipsCycle ==
    /\ IntegralQueryFailed(invLog) =>
           /\ \A c \in invLog.sent : c.bucket # bucket_of_rollover_write
           /\ invLog.outcome = "skipped" /\ pcInv = "wait"
    /\ IntegralQueryFailed(powLog) =>
           /\ \A c \in powLog.sent : c.bucket # bucket_of_rollover_write
           /\ powLog.outcome = "skipped" /\ pcPow = "wait"

\* ------------------------------------------------- properties: run()

\* A loop's thread is running: started and not ended.
Running(pc) ==
    pc \in {"wait", "query", "poll", "write_hr", "rollover", "integral", "write_lr"}

C25_Step ==
    /\ pcInv' # pcInv => powVars' = powVars
    /\ pcPow' # pcPow => invVars' = invVars

C25_NeverBlocked ==
    /\ Running(pcPow) => ENABLED RunPowerLoop
    /\ Running(pcInv) => ENABLED RunInverterLoop

\* C25: the loops are independent.  A step of one loop, its failure and the
\* end of its thread included, leaves the other loop's state alone; a
\* running loop can take its next step wherever the other loop stands; and
\* a loop whose thread is scheduled keeps completing and starting cycles
\* (or has ended by an error of its own) even if the other loop never takes
\* another step, stalled inside a call.
C25_LoopsIndependent ==
    /\ [][C25_Step]_vars
    /\ [](C25_NeverBlocked)
    /\ WF_vars(RunPowerLoop) =>
           /\ []<>(pcPow \in {"idle", "dead", "wait"})
           /\ []<>(pcPow \in {"idle", "dead", "poll"})
    /\ WF_vars(RunInverterLoop) =>
           /\ []<>(pcInv \in {"idle", "dead", "wait"})
           /\ []<>(pcInv \in {"idle", "dead", "query"})

\* The inverter loop's thread has ended by an error in a cycle; the power
\* loop has completed a cycle and is in its next one.
C25_Witness ==
    /\ pcInv = "dead"
    /\ invLog.outcome = "died"
    /\ pcPow = "rollover"
    /\ powLog.hr = "ok"
    /\ pcRun = "join_power"

\* C26: run() starts both loops before it waits for either, and has
\* returned only when both loops' threads have ended.  (Left by an
\* interrupt, run() has not returned.)
C26_RunReturnsAfterBothExit ==
    /\ pcRun \in {"join_power", "join_inverter", "returned"} =>
           started = {"power", "inverter"}
    /\ pcRun = "join_inverter" => pcPow = "dead"
    /\ pcRun = "returned" => pcPow = "dead" /\ pcInv = "dead"

\* run() has returned after both loops ran cycles and ended.
C26_Witness ==
    /\ pcRun = "returned"
    /\ invLog.outcome = "died"
    /\ powLog.outcome = "died"

\* C27 as stated: after an interrupt signal both loops eventually exit, so
\* that no loop's thread is left running.
C27_CancelledLoopsExit ==
    cancelled ~> (~Running(pcPow) /\ ~Running(pcInv))

C28_State ==
    /\ "power_todays_date" \notin invLog.touched
    /\ powLog.touched \cap {"inverter_todays_date", "last_inverter_poll"} = {}

C28_Step ==
    /\ power_todays_date' # power_todays_date => pcPow' # pcPow /\ pcInv' = pcInv
    /\ inverter_todays_date' # inverter_todays_date => pcInv' # pcInv /\ pcPow' = pcPow
    /\ last_inverter_poll' # last_inverter_poll => pcInv' # pcInv /\ pcPow' = pcPow

\* C28: the loops share no mutable loop state.  No cycle of the inverter
\* loop reads or writes the power day marker, no cycle of the power loop
\* the inverter day marker or last_inverter_poll, and each of the three
\* changes only in a step of the loop that owns it.
C28_NoSharedLoopState == [](C28_State) /\ [][C28_Step]_vars

\* Both loops, running side by side, have each been through a poll and a
\* rollover and have touched their own state.
C28_Witness ==
    /\ pcRun = "join_power"
    /\ powLog.touched = {"power_todays_date"}
    /\ invLog.touched = {"last_inverter_poll", "inverter_todays_date"}
    /\ power_todays_date = 1
    /\ inverter_todays_date = 1

\* ------------------------------------- properties: buckets and step order

\* The write calls of a cycle keep the kinds of points apart by bucket.
BucketsNotMixed(log) ==
    \A call \in log.sent :
        /\ call.kinds # {}
        /\ call.bucket = "influxdb_bucket_hr" <=> call.kinds = {"high-rate"}
        /\ call.bucket = "influxdb_bucket_lr" <=> call.kinds = {"daily"}

\* C29: every write call to the high-rate bucket carries high-rate points
\* only (power per-line points, inverter production points), every write
\* call to the daily bucket daily-total points only, and no write call goes
\* anywhere else or mixes the two kinds.
C29_BucketsNotMixed == BucketsNotMixed(invLog) /\ BucketsNotMixed(powLog)

\* An inverter cycle has written its readings and its daily totals.
C29_Witness ==
    /\ invLog.hr = "ok"
    /\ invLog.lr = "ok"
    /\ [bucket |-> "influxdb_bucket_hr", kinds |-> {"high-rate"}] \in invLog.sent
    /\ [bucket |-> "influxdb_bucket_lr", kinds |-> {"daily"}] \in invLog.sent

\* C30 as stated: within a cycle the rollover check happens before the
\* write of the cycle's high-rate points.
C30_RolloverCheckBeforeWrite ==
    /\ invLog.hr # "none" => "inverter_todays_date" \in invLog.touched
    /\ powLog.hr # "none" => "power_todays_date" \in powLog.touched

\* The step a loop takes is the process's restart, not a step of a cycle.
Restarted(pc, log) == pc \in {"wait", "idle"} /\ log = EmptyLog

\* The order of the steps of one cycle: pc and log before, pc2, log2 and
\* points2 after a step that moved the loop; first is the first step of a
\* cycle.
CycleOrder(pc, pc2, log2, points2, first) ==
    \/ Restarted(pc2, log2)
    \/ pc = "wait" /\ pc2 \in {first, "dead"}
    \/ pc = "query" /\ pc2 = "poll"
    \/ pc = "poll" /\ log2.outcome \in {"skipped", "died"} /\ pc2 \in {"wait", "dead"}
    \/ pc = "poll" /\ log2.outcome = "running" /\ points2 # <<>> /\ pc2 = "write_hr"
    \/ pc = "poll" /\ log2.outcome = "running" /\ points2 = <<>> /\ pc2 = "rollover"
    \/ pc = "write_hr" /\ log2.hr = "failed" /\ pc2 \in {"wait", "dead"}
    \/ pc = "write_hr" /\ log2.hr = "ok" /\ pc2 = "rollover"
    \/ pc = "rollover" /\ pc2 \in {"integral", "wait"}
    \/ pc = "integral" /\ pc2 \in {"write_lr", "wait", "dead"}
    \/ pc = "write_lr" /\ pc2 \in {"wait", "dead"}

C30_Step ==
    /\ pcInv' # pcInv => CycleOrder(pcInv, pcInv', invLog', inv_points', "query")
    /\ pcPow' # pcPow => CycleOrder(pcPow, pcPow', powLog', pow_points', "poll")

C30_State ==
    /\ pcInv \in {"query", "poll", "write_hr", "rollover"} =>
           "inverter_todays_date" \notin invLog.touched /\ invLog.lr = "none"
    /\ pcInv \in {"query", "poll", "write_hr"} => invLog.hr = "none"
    /\ pcInv \in {"integral", "write_lr"} => "inverter_todays_date" \in invLog.touched
    /\ pcPow \in {"poll", "write_hr", "rollover"} =>
           "power_todays_date" \notin powLog.touched /\ powLog.lr = "none"
    /\ pcPow \in {"poll", "write_hr"} => powLog.hr = "none"
    /\ pcPow \in {"integral", "write_lr"} => "power_todays_date" \in powLog.touched

\* C30, amended: a cycle passes through its steps in the order wait, (the
\* inverter loop's watermark query,) poll, transform, write of the cycle's
\* high-rate points when there are any, rollover check, the rollover's
\* integral query when it is due and its daily write when the query gave
\* points, and back to wait; an exception ends the cycle at the step that
\* raised it.  The high-rate write comes before the rollover check.
C30_WriteBeforeRolloverCheck == [](C30_State) /\ [][C30_Step]_vars

\* A cycle has written its high-rate points and stands before its rollover
\* check.
C30_Witness ==
    /\ pcInv = "rollover"
    /\ invLog.hr = "ok"
    /\ "inverter_todays_date" \notin invLog.touched


\* ------------------------------------------- properties: the power batch

\* C31: the high-rate batch of a power snapshot holds one point per line of
\* each channel group, the consumption lines first, then the production
\* lines, then the net lines, each group in line order, so its length is the
\* sum of the three line counts; and an empty batch is never handed to a
\* write call.
C31_PowerBatch ==
    pcPow # "poll" =>
        \A d \in power_data :
            LET nc == d.lines[1]
                np == d.lines[2]
                nn == d.lines[3]
            IN /\ Len(pow_points) = nc + np + nn
               /\ \A i \in 1 .. Len(pow_points) :
                     /\ pow_points[i].ts = d.ts
                     /\ IF i <= nc
                        THEN pow_points[i].mtype = "consumption" /\ pow_points[i].idx = i - 1
                        ELSE IF i <= nc + np
                        THEN pow_points[i].mtype = "production"
                             /\ pow_points[i].idx = i - nc - 1
                        ELSE pow_points[i].mtype = "net"
                             /\ pow_points[i].idx = i - nc - np - 1
               /\ (nc + np + nn = 0) => (pcPow # "write_hr" /\ powLog.sent = {})
               /\ (nc + np + nn > 0 /\ pcPow = "rollover") => powLog.sent # {}

\* Three groups of three lines gave nine points and they were written; a
\* production-only snapshot of three lines is the other case of the tests.
C31_Witness ==
    /\ pcPow = "rollover"
    /\ \E d \in power_data : \A g \in DOMAIN d.lines : d.lines[g] = 3
    /\ Len(pow_points) = 9
    /\ powLog.sent # {}

C31_ProductionOnly ==
    /\ pcPow = "rollover"
    /\ \E d \in power_data : d.lines = <<0, 3, 0>>
    /\ Len(pow_points) = 3
    /\ pow_points[1].mtype = "production"

\* ------------------------------------ properties: rollover and failures

\* A step of a loop, seen through the loop's log and stored date: whether it
\* issued the integral query, whether it issued the daily write.
IssuedIntegralQuery(log, log2) == log2.rollQ = log.rollQ + 1

IssuedDailyWrite(log, log2) == log.lr = "none" /\ log2.lr # "none"

\* What C32 asks of a step of one cadence.
RolloverOncePerDate(marker, marker2, log, log2) ==
    \* a due rollover stores today's date with its query, failed or not
    /\ IssuedIntegralQuery(log, log2) => (marker # today /\ marker2 = today)
    \* while the stored date is today's no integral query is issued
    /\ marker = today => ~IssuedIntegralQuery(log, log2)
    \* a daily write is issued only in the cycle whose own check stored the
    \* date and whose own query returned, whatever the local date is by then
    /\ IssuedDailyWrite(log, log2) =>
          (log.rollDate = {marker} /\ log.rollQ = 1 /\ log.integral # {})
    \* and a cycle issues a query only with the date its check stored
    /\ log2.rollQ > 0 => log2.rollDate = {marker2}
    \* and the stored date stays today's for as long as the date lasts
    /\ (marker = today /\ today' = today) => marker2 = today

C32_Step ==
    /\ RolloverOncePerDate(inverter_todays_date, inverter_todays_date', invLog, invLog')
    /\ RolloverOncePerDate(power_todays_date, power_todays_date', powLog, powLog')

\* C32: each rollover detector stores the local date its check reads before
\* its integral query is issued, so after a rollover whose query or write
\* failed the stored date is that date and stays the stored date while the
\* local date lasts; no cycle whose check finds the stored date to be the
\* local date issues an integral query, and a daily write is issued only by
\* the cycle whose own check stored the date.
C32_RolloverOncePerDate == [][C32_Step]_vars

\* C32 happens: a cycle's rollover query failed, the cycle was given up, and
\* the stored date is the new date all the same.
C32_Witness ==
    /\ pcInv = "wait"
    /\ invLog.outcome = "skipped"
    /\ invLog.rollQ = 1
    /\ invLog.integral = {}
    /\ invLog.lr = "none"
    /\ inverter_todays_date = today
    /\ today > 0

\* A step of a loop in which its cycle failed at the device poll or at the
\* high-rate write.
FailedBeforeRollover(pc, log2) ==
    pc \in {"poll", "write_hr"} /\ log2.outcome \in {"skipped", "died"}

\* A step of a loop in which its cycle got past its high-rate write: the
\* write returned, or there was nothing to write.
PastHighRateWrite(pc, pc2, log2) ==
    /\ ~Restarted(pc2, log2)
    /\ \/ pc = "write_hr" /\ log2.hr = "ok"
       \/ pc = "poll" /\ pc2 \notin {"poll", "write_hr"} /\ log2.outcome = "running"

\* What C33 asks of a step of one loop; name is the name of its stored date.
PendingDayChangeKept(pc, pc2, marker, marker2, log, log2, name) ==
    \* the failed cycle is over without a rollover check, the date untouched
    /\ FailedBeforeRollover(pc, log2) =>
          /\ pc2 \in {"wait", "dead"}
          /\ marker2 = marker
          /\ name \notin log2.touched
          /\ log2.rollQ = 0 /\ log2.lr = "none"
    \* a stored date that is not today's stays until a rollover check
    /\ (marker # today /\ marker2 # marker) => (pc = "rollover" \/ Restarted(pc2, log2))
    \* a cycle past its high-rate write comes to the rollover check
    /\ PastHighRateWrite(pc, pc2, log2) => pc2 = "rollover"
    \* and the check finds the date changed
    /\ (pc = "rollover" /\ pc2 # pc /\ ~Restarted(pc2, log2) /\ marker # today) =>
          (IssuedIntegralQuery(log, log2) /\ marker2 = today /\ name \in log2.touched)

C33_Step ==
    /\ PendingDayChangeKept(pcInv, pcInv', inverter_todays_date, inverter_todays_date',
                            invLog, invLog', "inverter_todays_date")
    /\ PendingDayChangeKept(pcPow, pcPow', power_todays_date, power_todays_date',
                            powLog, powLog', "power_todays_date")

\* C33: a cycle that fails at the device poll or at the high-rate write ends
\* without a rollover check and with the loop's stored date as it was; a
\* stored date that differs from today's stays so until a rollover check, and
\* the first cycle that gets past its high-rate write makes that check and
\* finds the day changed.
C33_PendingDayChangeKept == [][C33_Step]_vars

\* C33 happens: the day has changed, a power cycle failed at its high-rate
\* write, and the stored date is still the old one.
C33_Witness ==
    /\ pcPow = "wait"
    /\ powLog.outcome = "skipped"
    /\ powLog.hr = "failed"
    /\ power_todays_date # today

\* A loop's cycle as logged has made no rollover: no integral query, no
\* daily write.
NoRollover(log) ==
    log.rollQ = 0 /\ log.lr = "none" /\ \A c \in log.sent : c.bucket # bucket_of_rollover_write

C34_State ==
    today = constructed_on =>
        /\ inverter_todays_date = today /\ power_todays_date = today
        /\ NoRollover(invLog) /\ NoRollover(powLog)

C34_Step ==
    (IssuedIntegralQuery(invLog, invLog') \/ IssuedIntegralQuery(powLog, powLog')
        \/ IssuedDailyWrite(invLog, invLog') \/ IssuedDailyWrite(powLog, powLog'))
    => today # constructed_on

\* C34: the engine is constructed with both stored dates at the local date
\* of its construction, so while the local date is still that date no cycle
\* issues an integral query or a daily write; that holds for an engine
\* constructed after a day boundary the process was not running at, which
\* makes no rollover for that day.
C34_NoRolloverOnConstructionDate == [](C34_State) /\ [][C34_Step]_vars

\* C34 happens: the day changed, the process was started anew on the new
\* day, and an inverter cycle wrote its readings and made its rollover check
\* without a rollover.
C34_Witness ==
    /\ today > 0
    /\ constructed_on = today
    /\ pcInv = "wait"
    /\ invLog.outcome = "completed"
    /\ invLog.hr = "ok"
    /\ "inverter_todays_date" \in invLog.touched
    /\ NoRollover(invLog)

\* ------------------------------- properties: the empty inverter batch

\* A step in which the inverter loop's poll returned and the filter left
\* nothing to write.
PollLeftNothing ==
    /\ pcInv = "poll" /\ pcInv' # "poll"
    /\ ~Restarted(pcInv', invLog')
    /\ invLog'.outcome = "running"
    /\ inv_points' = <<>>

C35_Step ==
    /\ PollLeftNothing =>
          /\ pcInv' = "rollover"
          /\ last_inverter_poll' = {now}
          /\ invLog'.hr = "none" /\ invLog'.sent = {}
          /\ hrStore' = hrStore
    /\ (pcInv = "rollover" /\ pcInv' # "rollover" /\ ~Restarted(pcInv', invLog')) =>
          /\ "inverter_todays_date" \in invLog'.touched
          /\ invLog'.hr = invLog.hr
          /\ \A c \in invLog'.sent \ invLog.sent : c.bucket # bucket_of_cycle_write

C35_State ==
    (pcInv = "rollover" /\ inv_points = <<>>) =>
        /\ invLog.hr = "none" /\ invLog.sent = {}
        \* the poll time stored is a time of this cycle: not before its
        \* watermark query, not after the present
        /\ last_inverter_poll # {}
        /\ \A l \in last_inverter_poll :
              /\ l <= now
              /\ \A q \in invLog.queryAt : q <= l

\* C35: an inverter cycle whose poll returns and whose filtered batch is
\* empty issues no high-rate write, has stored the poll time in
\* last_inverter_poll, and goes on to the rollover check of the same cycle.
C35_EmptyBatchCycle == [](C35_State) /\ [][C35_Step]_vars

\* C35 happens: the device returned readings, none newer than the cutoff;
\* the cycle issued no write and stands before its rollover check, the time
\* of its poll stored and already past.
C35_Witness ==
    /\ pcInv = "rollover"
    /\ cutoff_ts # {}
    /\ DOMAIN raw_inverter_data # {}
    /\ inv_points = <<>>
    /\ invLog.sent = {}
    /\ \E l \in last_inverter_poll : l < now /\ l \in invLog.queryAt

\* The other case of C35: the rollover check after an empty batch was made.
C35_CheckMade ==
    /\ pcInv = "wait"
    /\ invLog.outcome = "completed"
    /\ invLog.hr = "none"
    /\ "inverter_todays_date" \in invLog.touched
    /\ "last_inverter_poll" \in invLog.touched

\* -------------------------------------- properties: the sleep's bounds

\* C36 as stated: the sleep wait_for_next_cycle computes is at least 0.1 s
\* and at most the interval, whenever it is invoked.
C36_SleepAtLeastTenth ==
    pcAlign = "sleeping" =>
        (time_to_next >= Tenth /\ time_to_next <= interval_seconds * TicksPerSecond)

\* C36, amended: the sleep wait_for_next_cycle computes is greater than
\* zero and at most the interval; it is at least 0.1 s unless the call is
\* made less than 0.1 s before a boundary, and then it is the time left to
\* that boundary, which is shorter than 0.1 s.
C36_SleepPositiveAtMostInterval ==
    pcAlign = "sleeping" =>
        LET remainder == timestamp_remainder(invoked, interval_seconds)
            whole == interval_seconds * TicksPerSecond
        IN /\ time_to_next > 0
           /\ time_to_next <= whole
           /\ remainder <= whole - Tenth => time_to_next >= Tenth
           /\ remainder > whole - Tenth =>
                  (time_to_next = whole - remainder /\ time_to_next < Tenth)

\* A call made 0.0625 s before a boundary sleeps 0.0625 s.
C36_Witness ==
    /\ pcAlign = "sleeping"
    /\ timestamp_remainder(invoked, interval_seconds)
           = interval_seconds * TicksPerSecond - GridStep
    /\ time_to_next = GridStep
    /\ time_to_next < Tenth

\* ------------------------------------ properties: one cycle per window

\* The interval window [k * interval, (k + 1) * interval) a time falls
\* into, counted from the window that holds EpochSecond.
WindowOf(at, interval) ==
    ((EpochSecond % interval) * TicksPerSecond + at) \div (interval * TicksPerSecond)

\* A cycle starts when wait_for_next_cycle returns.
C37_Step ==
    (pcAlign = "sleeping" /\ pcAlign' = "woken") =>
        \A earlier \in alignLog.start :
            WindowOf(earlier, interval_seconds) # WindowOf(clock', interval_seconds)

\* C37 as stated: two consecutive cycle starts of a loop never fall into
\* the same interval window, however long the cycle's work takes and however
\* late a sleep ends.
C37_OneCycleStartPerWindow == [][C37_Step]_vars


\* -------------------------- properties: the failed power poll of a call

\* A step of collect_samples_with_retry that ends its power phase (the call's
\* entry with retries = 0, or a power poll) without a successful power poll.
PowerPhaseFailed ==
    /\ now' = now
    /\ pcCol \in {"idle", "power"}
    /\ pcCol' # "power"
    /\ colLog'.last # "ok"

C38_Step ==
    \* the power phase never assigns last_inverter_poll
    /\ pcCol \in {"idle", "power"} => last_inverter_poll' = last_inverter_poll
    \* and a failed power phase ends the call before the gate and the poll
    /\ PowerPhaseFailed =>
          /\ pcCol' = "idle"
          /\ colResult'.kind = "raised"
          /\ colLog'.due = "none"
          /\ colLog'.inverter = 0

\* C38: a call of collect_samples_with_retry whose power poll does not
\* succeed, because every attempt timed out or because an attempt failed
\* otherwise, ends by raising: the cadence gate is not asked, the inverter
\* endpoint is not polled and last_inverter_poll is what it was when the
\* call began.
C38_FailedPowerPollSkipsInverters == [][C38_Step]_vars

\* C38 happens: an inverter poll was due, the power poll failed with a
\* failure that is no timeout, and the call raised without an inverter poll.
C38_Witness ==
    /\ pcCol = "idle"
    /\ colResult.kind = "raised"
    /\ colLog.last \in NonTimeoutFailures
    /\ colLog.inverter = 0
    /\ \E l \in last_inverter_poll : now - l >= inverter_interval_seconds

\* --------------------------------- properties: the watermark's points

\* The inverter high-rate points a watermark query run at `at` looks back
\* on: those the bucket holds within the query's range.
HighRateInRange(store, at) ==
    {p \in store : PointKind(p) = "high-rate" /\ InRange(p.ts, at)}

\* C39 as stated: the cutoff a watermark query returns is the maximum
\* timestamp among the inverter high-rate points written before (those in
\* the query's range), and absent when there is none; the daily inverter
\* points written at rollover never raise it, whether the daily bucket has a
\* name of its own or the high-rate bucket's name.
C39_CutoffIsLatestHighRatePoint ==
    (pcInv = "poll" /\ invLog.cutoffQ = "ok") =>
        \A at \in invLog.queryAt :
            LET written == HighRateInRange(hrStore, at)
            IN cutoff_ts = IF written = {} THEN {} ELSE {Max({p.ts : p \in written})}
====
